---- MODULE Spec2Model ----
(***************************************************************************)
(* Session lifecycle (QR login, registry) and automated distribution       *)
(* (quota ledger, distribution engine, supervisor) of the Telegram bot.    *)
(* Sources: src/app/session_manager.py, src/app/database.py,               *)
(* src/app/auto_add.py.                                                    *)
(***************************************************************************)
EXTENDS Integers, Sequences, FiniteSets, TLC

(***************************************************************************)
(* Bounds of the model.                                                    *)
(***************************************************************************)
\* number of QR attempts (generated session names) in one behaviour
MaxAttempts == 2
\* number of session names
MaxNames == 3
\* number of network identities
MaxIdentities == 3
\* number of phone numbers the operator imports
MaxPhones == 4
\* largest per-session daily cap a run is started with
MaxCap == 2
\* largest batch size a run is started with
MaxBatch == 2
\* number of rows the operator lets the queue grow to
MaxQueue == 2
\* calendar days after the first one
MaxDay == 1

\* generated session names; _get_next_session_name never repeats one
Names == 1..MaxNames
\* network identities (me.id) that scan QR codes
Identities == 1..MaxIdentities
NoId == 0
\* phone numbers of the queue
Phones == 1..MaxPhones
\* calendar days (date.today())
Days == 0..MaxDay

VARIABLES
  \* ---- SessionManager, in memory (session_manager.py:20-23)
  qr_sessions,     \* name -> [status, client, is_admin]; status "absent" = no key
  sessions,        \* name -> "absent" | "conn" | "disc"   (user partition)
  admin_sessions,  \* name -> "absent" | "conn" | "disc"   (admin partition)
  user_sessions,   \* identity -> session name, 0 = no entry
  \* ---- durable store and credential files
  db_sessions,     \* rows of table sessions (all created 'active')
  db_admin,        \* rows of table admin_session, in insertion order
  user_files,      \* names with a file sessions/users/<name>.session
  admin_files,     \* names with a file sessions/admins/<name>.session
  \* ---- client handles and tasks of the QR attempts
  handle,          \* name -> "none" | "conn" | "disc": the MemorySession client
  auth_uid,        \* name -> identity the attempt's authorization key belongs to
  pc,              \* name -> position of the attempt's issue / wait task
  variant,         \* name -> "none" | "user" | "admin": which flow owns the name
  ignored_ids,     \* name -> identities passed to qr_login(ignored_ids=...)
  issued,          \* number of names generated so far
  \* ---- what callers were told (history)
  reply,           \* [op, name, status]: the reply of the latest API call
  dupHit,          \* name -> _save_valid_session found an existing session
  observed,        \* the names a status query or a password submission
                   \* has answered success for
  lock,            \* _session_lock: 0 when free, else the name whose record
                   \* the janitor is removing while it holds the lock
  \* ---- durable store: queue, quota ledger, settings
  phone_numbers,   \* rows [phone, status] of table phone_numbers, by added_at
  session_limits,  \* rows [session_name, date, users_added] of session_limits
  settings,        \* [use_admin_as_user, use_user_as_admin] of admin_settings
  today,           \* date.today()
  \* ---- add_users_to_group
  max_daily,       \* max_daily_per_session the runs are started with
  admin_groups,    \* table admin_groups: [fetches, owner], what the fetches of the
                   \* admin identity's group memberships stored
  run,             \* the locals of the run that is being executed
  other,           \* [run, result, trace] of an overlapping run of
                   \* add_users_to_group that is suspended at an await
  result,          \* what the latest run returned
  \* ---- history of the run in progress and of its latest per-target step
  trace,           \* [start, picks, faults, batch_delays]
  incr_calls,      \* name -> day -> number of increment_session_limit calls
  last_contact,    \* [was, imported, refused, after] of the latest step
  \* ---- AutoAddSupervisor (auto_add.py) and the wall clock
  auto_add,        \* [enabled, daily_start_time, last_run, forced_wakeup]:
                   \* the auto add rows of admin_settings
  clock,           \* the time of day, in ticks since midnight
  supervisor       \* [pc, now_utc, next_run] of _run_loop

qrVars == <<qr_sessions, sessions, admin_sessions, user_sessions, db_sessions,
            db_admin, user_files, admin_files, handle, auth_uid, pc, variant,
            ignored_ids, issued, reply, dupHit, observed, lock>>

\* the state of the distribution engine and of what it reads
engineVars == <<phone_numbers, session_limits, settings, today, max_daily,
                admin_groups, other, run, result, trace, incr_calls,
                last_contact>>

\* the QR state the distribution engine leaves alone
qrOnlyVars == <<qr_sessions, user_sessions, db_sessions, db_admin, user_files,
                admin_files, handle, auth_uid, pc, variant, ignored_ids, issued,
                reply, dupHit, observed, lock>>

\* the supervisor's state and what its schedule reads
schedVars == <<auto_add, clock, supervisor>>

vars == <<qrVars, engineVars, schedVars>>

NoReply == [op |-> "none", name |-> 0, status |-> "none"]
NoRec == [status |-> "absent", client |-> FALSE, is_admin |-> FALSE]
\* table admin_groups before any fetch
NoGroups == [fetches |-> 0, owner |-> 0]

InitQR ==
  /\ qr_sessions = [n \in Names |-> NoRec]
  /\ sessions = [n \in Names |-> "absent"]
  /\ admin_sessions = [n \in Names |-> "absent"]
  /\ user_sessions = [u \in Identities |-> 0]
  /\ db_sessions = {}
  /\ db_admin = <<>>
  /\ user_files = {}
  /\ admin_files = {}
  /\ handle = [n \in Names |-> "none"]
  /\ auth_uid = [n \in Names |-> NoId]
  /\ pc = [n \in Names |-> "idle"]
  /\ variant = [n \in Names |-> "none"]
  /\ ignored_ids = [n \in Names |-> {}]
  /\ issued = 0
  /\ reply = NoReply
  /\ dupHit = [n \in Names |-> FALSE]
  /\ observed = {}
  /\ lock = 0

(***************************************************************************)
(* Durable store helpers.                                                  *)
(***************************************************************************)
\* Database.get_admin_session: SELECT ... LIMIT 1, the first row or None (0)
get_admin_session == IF db_admin = <<>> THEN 0 ELSE db_admin[1].session_name

AdminRows == {db_admin[i] : i \in 1..Len(db_admin)}

\* Database.delete_session: DELETE FROM sessions WHERE name = ?
delete_session(db, n) == db \ {n}

(***************************************************************************)
(* get_active_user_ids: identities of the loaded handles, user and admin   *)
(* partition, that are connected and still authorized.                     *)
(***************************************************************************)
get_active_user_ids ==
  {auth_uid[n] : n \in {m \in Names :
       sessions[m] = "conn" \/ admin_sessions[m] = "conn"}}

(***************************************************************************)
(* _cleanup_invalid_session(name, client, status), applied to the values   *)
(* qr, uf, af the caller has produced so far.  client.disconnect() is the  *)
(* first statement of its try block: when it raises, nothing else of the   *)
(* body runs (the except clause only logs).                                *)
(***************************************************************************)
cleanup_invalid_session(n, status, raises, qr, uf, af) ==
  /\ handle' = IF raises THEN handle ELSE [handle EXCEPT ![n] = "disc"]
  /\ user_files' = IF raises THEN uf ELSE uf \ {n}
  /\ admin_files' = IF raises THEN af ELSE af \ {n}
  /\ qr_sessions' = IF raises \/ qr[n].status = "absent"
                    THEN qr
                    ELSE [qr EXCEPT ![n].status = status]

(***************************************************************************)
(* create_auto_qr_session / create_admin_qr_session, first part: the name  *)
(* is generated and the attempt record is stored with status generating.   *)
(* The admin variant is refused while an admin session is stored.          *)
(***************************************************************************)
IssueBegin(admin) ==
  /\ issued < MaxAttempts
  /\ admin => get_admin_session = 0
  /\ LET n == issued + 1 IN
       /\ issued' = n
       /\ qr_sessions' = [qr_sessions EXCEPT
              ![n] = [status |-> "generating", client |-> FALSE, is_admin |-> admin]]
       /\ pc' = [pc EXCEPT ![n] = "gen"]
       /\ variant' = [variant EXCEPT ![n] = IF admin THEN "admin" ELSE "user"]
  /\ UNCHANGED <<sessions, admin_sessions, user_sessions, db_sessions, db_admin,
                 user_files, admin_files, handle, auth_uid, ignored_ids,
                 reply, dupHit, observed, lock>>
  /\ UNCHANGED <<engineVars, schedVars>>

(***************************************************************************)
(* _generate_qr_fast / _generate_admin_qr_fast.  ok: the fresh handle      *)
(* connects and the challenge is issued; the record goes to waiting and    *)
(* the wait task is created.  Otherwise the except clause sets the status  *)
(* to error and disconnects the handle (when that raises, the caller's     *)
(* except clause pops the record).  The user variant passes the active     *)
(* identities as ignored_ids; the admin variant passes none.               *)
(***************************************************************************)
IssueFinish(n, ok, raises) ==
  /\ pc[n] = "gen"
  /\ LET admin == variant[n] = "admin"
         present == qr_sessions[n].status # "absent" IN
     IF ok /\ present
     THEN /\ raises = FALSE
          /\ qr_sessions' = [qr_sessions EXCEPT ![n].status = "waiting"]
          /\ handle' = [handle EXCEPT ![n] = "conn"]
          /\ ignored_ids' = [ignored_ids EXCEPT
                 ![n] = IF admin THEN {} ELSE get_active_user_ids]
          /\ pc' = [pc EXCEPT ![n] = "wait"]
          /\ reply' = [op |-> "issue", name |-> n, status |-> "waiting"]
     ELSE /\ qr_sessions' =
                IF ~present THEN qr_sessions
                ELSE IF raises THEN [qr_sessions EXCEPT ![n] = NoRec]
                ELSE [qr_sessions EXCEPT ![n].status = "error"]
          /\ handle' = [handle EXCEPT ![n] = IF raises THEN "conn" ELSE "disc"]
          /\ pc' = [pc EXCEPT ![n] = "done"]
          \* line 161: the user variant turns the None result into "success"
          /\ reply' = [op |-> "issue", name |-> n,
                       status |-> IF raises \/ admin THEN "error" ELSE "success"]
          /\ UNCHANGED ignored_ids
  /\ UNCHANGED <<sessions, admin_sessions, user_sessions, db_sessions, db_admin,
                 user_files, admin_files, auth_uid, variant, issued, dupHit,
                 observed, lock>>
  /\ UNCHANGED <<engineVars, schedVars>>

(***************************************************************************)
(* _persist_authorized_session for the user partition: credential file,    *)
(* row in sessions, registry entry (the file client, not yet connected),   *)
(* identity map entry, status scanned.                                     *)
(***************************************************************************)
PersistUser(n, u, qr) ==
  /\ user_files' = user_files \cup {n}
  /\ db_sessions' = db_sessions \cup {n}
  /\ sessions' = [sessions EXCEPT ![n] = "disc"]
  /\ user_sessions' = [user_sessions EXCEPT ![u] = n]
  /\ qr_sessions' = IF qr[n].status = "absent" THEN qr
                    ELSE [qr EXCEPT ![n].status = "scanned"]

(***************************************************************************)
(* _persist_authorized_session for the admin partition: credential file,   *)
(* row in admin_session, admin registry entry, status scanned.  The        *)
(* identity map is neither read nor written.                               *)
(***************************************************************************)
PersistAdmin(n, u, qr) ==
  /\ admin_files' = admin_files \cup {n}
  /\ db_admin' = Append(db_admin, [session_name |-> n, user_id |-> u])
  /\ admin_sessions' = [admin_sessions EXCEPT ![n] = "disc"]
  /\ qr_sessions' = IF qr[n].status = "absent" THEN qr
                    ELSE [qr EXCEPT ![n].status = "scanned"]

\* the duplicate check of _save_valid_session: user_sessions.get(me.id)
ExistingSession(u) == user_sessions[u] # 0

(***************************************************************************)
(* _save_valid_session after get_me returned the identity u, applied to    *)
(* the attempt records qr.  outcome: "ok" (persisted), "fail" (the copy    *)
(* of the authorization key or the store raises after the file was         *)
(* written).  raises: the disconnect that follows raises.                  *)
(***************************************************************************)
save_valid_session(n, u, outcome, raises, qr) ==
  IF ExistingSession(u)
  THEN LET qd == IF qr[n].status = "absent" THEN qr
                 ELSE [qr EXCEPT ![n].status = "duplicate"] IN
       /\ dupHit' = [dupHit EXCEPT ![n] = TRUE]
       \* line 1299: disconnect inside the try; on a raise the except clause
       \* runs _cleanup_invalid_session, whose own disconnect may work
       /\ IF raises
          THEN \E again \in BOOLEAN :
                 cleanup_invalid_session(n, "error", again, qd, user_files, admin_files)
          ELSE /\ handle' = [handle EXCEPT ![n] = "disc"]
               /\ qr_sessions' = qd
               /\ UNCHANGED <<user_files, admin_files>>
       /\ UNCHANGED <<sessions, admin_sessions, user_sessions, db_sessions,
                      db_admin>>
  ELSE /\ UNCHANGED dupHit
       /\ IF outcome = "ok"
          THEN /\ PersistUser(n, u, qr)
               /\ handle' = [handle EXCEPT ![n] = IF raises THEN "conn" ELSE "disc"]
               /\ UNCHANGED <<admin_sessions, db_admin, admin_files>>
          ELSE /\ cleanup_invalid_session(n, "error", raises, qr,
                                          user_files \cup {n}, admin_files)
               /\ UNCHANGED <<sessions, admin_sessions, user_sessions,
                              db_sessions, db_admin>>

(***************************************************************************)
(* _save_admin_session after get_me returned the identity u.               *)
(***************************************************************************)
save_admin_session(n, u, outcome, raises, qr) ==
  /\ UNCHANGED dupHit
  /\ IF outcome = "ok"
     THEN /\ PersistAdmin(n, u, qr)
          /\ handle' = [handle EXCEPT ![n] = IF raises THEN "conn" ELSE "disc"]
          /\ UNCHANGED <<sessions, user_sessions, db_sessions, user_files>>
     ELSE /\ cleanup_invalid_session(n, "error", raises, qr,
                                     user_files, admin_files \cup {n})
          /\ UNCHANGED <<sessions, admin_sessions, user_sessions,
                         db_sessions, db_admin>>

(***************************************************************************)
(* _fetch_admin_groups(client): the groups among the dialogs of the        *)
(* identity u are collected and save_admin_groups replaces the table with  *)
(* them.  No routine of the program calls it: _save_admin_session and      *)
(* _persist_authorized_session return without it, and no action below      *)
(* applies it.                                                             *)
(***************************************************************************)
fetch_admin_groups(groups, u) ==
  [fetches |-> groups.fetches + 1, owner |-> u]

(***************************************************************************)
(* _wait_for_scan / _wait_for_admin_scan.                                  *)
(***************************************************************************)
\* identities are interchangeable: an identity that never scanned before is
\* the smallest such
FirstScanner(u) ==
  \A v \in Identities : v < u => \E m \in Names : auth_uid[m] = v

\* the identity u scans the challenge, the handle is authorized and get_me
\* answers; the network refuses identities listed in ignored_ids
ScanOk(n, u) ==
  /\ pc[n] = "wait"
  /\ u \notin ignored_ids[n]
  /\ FirstScanner(u)
  /\ auth_uid' = [auth_uid EXCEPT ![n] = u]
  /\ pc' = [pc EXCEPT ![n] = "save"]
  /\ UNCHANGED <<qr_sessions, sessions, admin_sessions, user_sessions,
                 db_sessions, db_admin, user_files, admin_files, handle,
                 variant, ignored_ids, issued, reply, dupHit, observed, lock>>
  /\ UNCHANGED <<engineVars, schedVars>>

\* the wait task goes on into _save_valid_session / _save_admin_session.
\* When the identity has a session and the disconnect of line 1299 raises,
\* the task is suspended in that disconnect with the status duplicate
\* already written (lines 1291-1294); its except clause runs afterwards
\* (DuplicateCleanup).
SaveScanned(n, outcome, raises) ==
  /\ pc[n] = "save"
  /\ IF variant[n] # "admin" /\ ExistingSession(auth_uid[n]) /\ raises
     THEN /\ qr_sessions' = IF qr_sessions[n].status = "absent" THEN qr_sessions
                            ELSE [qr_sessions EXCEPT ![n].status = "duplicate"]
          /\ dupHit' = [dupHit EXCEPT ![n] = TRUE]
          /\ pc' = [pc EXCEPT ![n] = "cleanup"]
          /\ UNCHANGED <<sessions, admin_sessions, user_sessions, db_sessions,
                         db_admin, user_files, admin_files, handle>>
     ELSE /\ IF variant[n] = "admin"
             THEN save_admin_session(n, auth_uid[n], outcome, raises, qr_sessions)
             ELSE save_valid_session(n, auth_uid[n], outcome, raises, qr_sessions)
          /\ pc' = [pc EXCEPT ![n] = "done"]
  /\ UNCHANGED <<auth_uid, variant, ignored_ids, issued, reply, observed, lock>>
  /\ UNCHANGED <<engineVars, schedVars>>

\* the except clause of _save_valid_session (lines 1314-1319) after the
\* disconnect of line 1299 raised: _cleanup_invalid_session(..., "error")
DuplicateCleanup(n, raises) ==
  /\ pc[n] = "cleanup"
  /\ cleanup_invalid_session(n, "error", raises, qr_sessions, user_files, admin_files)
  /\ pc' = [pc EXCEPT ![n] = "done"]
  /\ UNCHANGED <<sessions, admin_sessions, user_sessions, db_sessions,
                 db_admin, auth_uid, variant, ignored_ids, issued, reply,
                 dupHit, observed, lock>>
  /\ UNCHANGED <<engineVars, schedVars>>

\* qr_login.wait() raises the second-factor condition for the identity u:
\* the record keeps the live handle
Need2FA(n, u) ==
  /\ pc[n] = "wait"
  /\ u \notin ignored_ids[n]
  /\ FirstScanner(u)
  /\ auth_uid' = [auth_uid EXCEPT ![n] = u]
  /\ qr_sessions' = IF qr_sessions[n].status = "absent" THEN qr_sessions
                    ELSE [qr_sessions EXCEPT ![n].status = "password_required",
                                             ![n].client = TRUE]
  /\ pc' = [pc EXCEPT ![n] = "done"]
  /\ UNCHANGED <<sessions, admin_sessions, user_sessions, db_sessions, db_admin,
                 user_files, admin_files, handle, variant, ignored_ids, issued,
                 reply, dupHit, observed, lock>>
  /\ UNCHANGED <<engineVars, schedVars>>

\* asyncio.TimeoutError after 300 s: _cleanup_invalid_session(..., "expired")
ScanTimeout(n, raises) ==
  /\ pc[n] = "wait"
  /\ cleanup_invalid_session(n, "expired", raises, qr_sessions, user_files, admin_files)
  /\ pc' = [pc EXCEPT ![n] = "timeout_done"]
  /\ UNCHANGED <<sessions, admin_sessions, user_sessions, db_sessions,
                 db_admin, auth_uid, variant, ignored_ids, issued, reply,
                 dupHit, observed, lock>>
  /\ UNCHANGED <<engineVars, schedVars>>

\* any other failure of the wait, or the handle not authorized after it
ScanError(n, raises) ==
  /\ pc[n] = "wait"
  /\ cleanup_invalid_session(n, "error", raises, qr_sessions, user_files, admin_files)
  /\ pc' = [pc EXCEPT ![n] = "done"]
  /\ UNCHANGED <<sessions, admin_sessions, user_sessions, db_sessions,
                 db_admin, auth_uid, variant, ignored_ids, issued, reply,
                 dupHit, observed, lock>>
  /\ UNCHANGED <<engineVars, schedVars>>

\* the tests verify_2fa_password makes before it calls sign_in (lines
\* 178-184): the record exists and holds a "client" key; the status of the
\* record is not looked at
verify_refusal(rec) ==
  IF rec.status = "absent" THEN "session_not_found"
  ELSE IF ~rec.client THEN "client_not_found"
  ELSE "none"

(***************************************************************************)
(* verify_2fa_password / verify_admin_2fa_password.  The call is refused   *)
(* as the code refuses it (verify_refusal); the reply "error" is the one   *)
(* of a rejected password, given after sign_in was called.  pwOk: sign_in  *)
(* accepts the password and the handle is authorized; then the save        *)
(* routine runs, the record is deleted and "success" is returned, whatever *)
(* the save routine did.  Otherwise _cleanup_invalid_session and an error  *)
(* reply.                                                                  *)
(***************************************************************************)
VerifyPassword(n, pwOk, outcome, raises) ==
  /\ IF verify_refusal(qr_sessions[n]) # "none"
     THEN \* no answer of the network is asked for
          /\ ~pwOk /\ outcome = "ok" /\ ~raises
          /\ reply' = [op |-> "verify", name |-> n,
                       status |-> verify_refusal(qr_sessions[n])]
          /\ UNCHANGED <<qr_sessions, sessions, admin_sessions, user_sessions,
                         db_sessions, db_admin, user_files, admin_files, handle,
                         dupHit>>
     ELSE
       /\ pwOk => handle[n] = "conn"
       /\ IF pwOk
          THEN LET qdel == [qr_sessions EXCEPT ![n] = NoRec] IN
               \* the record is deleted after the save routine returned; every
               \* status the save routine wrote is lost with it
               /\ IF variant[n] = "admin"
                  THEN save_admin_session(n, auth_uid[n], outcome, raises, qdel)
                  ELSE save_valid_session(n, auth_uid[n], outcome, raises, qdel)
               /\ reply' = [op |-> "verify", name |-> n, status |-> "success"]
          ELSE /\ cleanup_invalid_session(n, "error", raises, qr_sessions,
                                          user_files, admin_files)
               /\ reply' = [op |-> "verify", name |-> n, status |-> "error"]
               /\ UNCHANGED <<sessions, admin_sessions, user_sessions,
                              db_sessions, db_admin, dupHit>>
  /\ observed' = IF reply'.status = "success" THEN observed \cup {n}
                  ELSE observed
  /\ UNCHANGED <<auth_uid, pc, variant, ignored_ids, issued, lock>>
  /\ UNCHANGED <<engineVars, schedVars>>

(***************************************************************************)
(* check_qr_status: the reply for the name n, and the record removed on a  *)
(* terminal status.                                                        *)
(***************************************************************************)
StatusReply(n) ==
  LET st == qr_sessions[n].status IN
  IF st = "absent"
  THEN IF n \in db_sessions THEN "success" ELSE "not_found"
  ELSE IF st = "scanned" THEN "success"
  ELSE IF st \in {"duplicate", "password_required", "expired", "error"} THEN st
  ELSE "waiting"

TerminalStatus == {"scanned", "duplicate", "expired", "error"}

\* the query as a peek that never removes the record
check_qr_status_peek(n) ==
  /\ n <= issued
  /\ reply' = [op |-> "status", name |-> n, status |-> StatusReply(n)]
  /\ observed' = IF StatusReply(n) = "success" THEN observed \cup {n}
                  ELSE observed
  /\ UNCHANGED <<qr_sessions, sessions, admin_sessions, user_sessions,
                 db_sessions, db_admin, user_files, admin_files, handle,
                 auth_uid, pc, variant, ignored_ids, issued, dupHit, lock>>
  /\ UNCHANGED <<engineVars, schedVars>>

check_qr_status(n) ==
  /\ n <= issued
  /\ qr_sessions' = IF qr_sessions[n].status \in TerminalStatus
                    THEN [qr_sessions EXCEPT ![n] = NoRec]
                    ELSE qr_sessions
  /\ reply' = [op |-> "status", name |-> n, status |-> StatusReply(n)]
  /\ observed' = IF StatusReply(n) = "success" THEN observed \cup {n}
                  ELSE observed
  /\ UNCHANGED <<sessions, admin_sessions, user_sessions, db_sessions, db_admin,
                 user_files, admin_files, handle, auth_uid, pc, variant,
                 ignored_ids, issued, dupHit, lock>>
  /\ UNCHANGED <<engineVars, schedVars>>

(***************************************************************************)
(* _cleanup_expired_sessions, one record of one pass.  The record n is     *)
(* older than 600 seconds; the wait task, which is bounded by 300 seconds, *)
(* has ended.  A handle kept under the "client" key is disconnected, with  *)
(* every exception of the disconnect swallowed; the record is deleted;     *)
(* the credential file named n (the user one if it exists, else the admin  *)
(* one) is unlinked unless a row of sessions has the name or the admin row *)
(* has it.                                                                 *)
(***************************************************************************)
reap(n, raises) ==
  LET is_in_db == n \in db_sessions
      is_admin == get_admin_session = n
      keep == is_in_db \/ is_admin
  IN /\ handle' = IF qr_sessions[n].client /\ ~raises
                  THEN [handle EXCEPT ![n] = "disc"] ELSE handle
     /\ qr_sessions' = [qr_sessions EXCEPT ![n] = NoRec]
     /\ user_files' = IF keep THEN user_files ELSE user_files \ {n}
     /\ admin_files' = IF keep \/ n \in user_files THEN admin_files
                       ELSE admin_files \ {n}

cleanup_expired_sessions(n, raises) ==
  /\ qr_sessions[n].status # "absent"
  /\ pc[n] \in {"done", "timeout_done"}
  /\ raises => qr_sessions[n].client
  /\ reap(n, raises)
  /\ pc' = [pc EXCEPT ![n] = "reaped"]
  /\ UNCHANGED <<sessions, admin_sessions, user_sessions, db_sessions,
                 db_admin, auth_uid, variant, ignored_ids, issued, reply,
                 dupHit, observed, lock>>
  /\ UNCHANGED <<engineVars, schedVars>>

(***************************************************************************)
(* remove_session(name).  logoutOk: get_me and log_out work on the loaded  *)
(* handle (it must be connected); only then the identity map entry of that *)
(* identity is deleted.  Otherwise the handle is just disconnected.  Then  *)
(* the QR record, both credential files and the row in sessions go.        *)
(***************************************************************************)
remove_session(n, logoutOk) ==
  LET live == IF sessions[n] # "absent" THEN sessions[n] = "conn"
              ELSE admin_sessions[n] = "conn" IN
  /\ logoutOk => live
  /\ sessions' = [sessions EXCEPT ![n] = "absent"]
  /\ admin_sessions' = IF sessions[n] # "absent" THEN admin_sessions
                       ELSE [admin_sessions EXCEPT ![n] = "absent"]
  /\ user_sessions' = IF logoutOk
                      THEN [user_sessions EXCEPT ![auth_uid[n]] = 0]
                      ELSE user_sessions
  /\ handle' = IF qr_sessions[n].status # "absent" /\ qr_sessions[n].client
               THEN [handle EXCEPT ![n] = "disc"] ELSE handle
  /\ qr_sessions' = [qr_sessions EXCEPT ![n] = NoRec]
  /\ user_files' = user_files \ {n}
  /\ admin_files' = admin_files \ {n}
  /\ db_sessions' = delete_session(db_sessions, n)

RemoveSession(n, logoutOk) ==
  /\ n <= issued
  /\ remove_session(n, logoutOk)
  /\ reply' = [op |-> "remove", name |-> n, status |-> "success"]
  /\ UNCHANGED <<db_admin, auth_uid, pc, variant, ignored_ids, issued, dupHit,
                 observed, lock>>
  /\ UNCHANGED <<engineVars, schedVars>>

(***************************************************************************)
(* remove_admin_session: the stored admin session's handle is dropped,     *)
(* remove_session runs for its name, and every row of admin_session goes.  *)
(***************************************************************************)
RemoveAdminSession ==
  /\ get_admin_session # 0
  /\ LET n == get_admin_session IN
       /\ sessions' = [sessions EXCEPT ![n] = "absent"]
       /\ admin_sessions' = [admin_sessions EXCEPT ![n] = "absent"]
       /\ handle' = IF qr_sessions[n].status # "absent" /\ qr_sessions[n].client
                    THEN [handle EXCEPT ![n] = "disc"] ELSE handle
       /\ qr_sessions' = [qr_sessions EXCEPT ![n] = NoRec]
       /\ user_files' = user_files \ {n}
       /\ admin_files' = admin_files \ {n}
       /\ db_sessions' = delete_session(db_sessions, n)
       /\ reply' = [op |-> "remove", name |-> n, status |-> "success"]
  /\ db_admin' = <<>>
  /\ UNCHANGED <<user_sessions, auth_uid, pc, variant, ignored_ids, issued,
                 dupHit, observed, lock>>
  /\ UNCHANGED <<engineVars, schedVars>>

(***************************************************************************)
(* _health_check_sessions with _remove_invalid_session: every loaded user  *)
(* handle is reconnected and verified; those in fail (no longer            *)
(* authorized, or the call raises) are evicted from the registry, from     *)
(* table sessions and from the users directory.  The identity map is not   *)
(* touched.                                                                *)
(***************************************************************************)
health_check_sessions(fail) ==
  /\ sessions' = [n \in Names |->
        IF sessions[n] = "absent" \/ n \in fail THEN "absent" ELSE "conn"]
  /\ db_sessions' = db_sessions \ fail
  /\ user_files' = user_files \ fail

Loaded == {n \in Names : sessions[n] # "absent"}

HealthCheck(fail) ==
  /\ Loaded # {}
  /\ fail \subseteq Loaded
  /\ health_check_sessions(fail)
  /\ UNCHANGED <<qr_sessions, admin_sessions, user_sessions, db_admin,
                 admin_files, handle, auth_uid, pc, variant, ignored_ids,
                 issued, reply, dupHit, observed, lock>>
  /\ UNCHANGED <<engineVars, schedVars>>

(***************************************************************************)
(* _load_all_sessions: the stored sessions that are not loaded and whose   *)
(* credential file exists are connected; those that connect and are        *)
(* authorized (ok) are registered.                                         *)
(***************************************************************************)
Loadable == {n \in db_sessions : sessions[n] = "absent" /\ n \in user_files}

load_all_sessions(ok) ==
  sessions' = [n \in Names |-> IF n \in ok THEN "conn" ELSE sessions[n]]

LoadAll(ok) ==
  /\ ok # {}
  /\ ok \subseteq Loadable
  /\ load_all_sessions(ok)
  /\ UNCHANGED <<qr_sessions, admin_sessions, user_sessions, db_sessions,
                 db_admin, user_files, admin_files, handle, auth_uid, pc,
                 variant, ignored_ids, issued, reply, dupHit, observed, lock>>
  /\ UNCHANGED <<engineVars, schedVars>>

(***************************************************************************)
(* Quota ledger: table session_limits (database.py).                       *)
(***************************************************************************)
\* the rows of tbl for a session and a day: UNIQUE(session_name, date)
limit_rows(tbl, name, day) ==
  {r \in tbl : r.session_name = name /\ r.date = day}

\* 'SELECT users_added ...; added_today = result[0] if result else 0'
added_today(tbl, name, day) ==
  IF limit_rows(tbl, name, day) = {} THEN 0
  ELSE (CHOOSE r \in limit_rows(tbl, name, day) : TRUE).users_added

\* Database.get_session_daily_limit(session_name, max_daily) on the day `day`
get_session_daily_limit(tbl, name, day, max) == max - added_today(tbl, name, day)

\* a faulty variant: the UPDATE alone, without the INSERT OR IGNORE before it
increment_update_only(tbl, name, day) ==
  {IF r.session_name = name /\ r.date = day
     THEN [r EXCEPT !.users_added = @ + 1] ELSE r : r \in tbl}

\* Database.increment_session_limit: INSERT OR IGNORE the row with 0, then
\* UPDATE users_added = users_added + 1
increment_session_limit(tbl, name, day) ==
  LET inserted == IF limit_rows(tbl, name, day) = {}
                  THEN tbl \cup {[session_name |-> name, date |-> day,
                                  users_added |-> 0]}
                  ELSE tbl IN
  {IF r.session_name = name /\ r.date = day
     THEN [r EXCEPT !.users_added = @ + 1] ELSE r : r \in inserted}

(***************************************************************************)
(* Queue: table phone_numbers (database.py).                               *)
(***************************************************************************)
RowIdx(tbl) == 1..Len(tbl)

\* the status of a phone, "absent" when the table has no row for it
StatusOf(tbl, p) ==
  IF \E i \in RowIdx(tbl) : tbl[i].phone = p
  THEN tbl[CHOOSE i \in RowIdx(tbl) : tbl[i].phone = p].status
  ELSE "absent"

\* a faulty variant: INSERT OR REPLACE, the row of a phone already in the table
\* is replaced by a pending one
add_phone_number_replace(tbl, p) ==
  Append(SelectSeq(tbl, LAMBDA r : r.phone # p),
         [phone |-> p, status |-> "pending"])

\* Database.add_phone_number: INSERT, status defaults to 'pending'; a phone
\* already in the table raises IntegrityError and nothing changes
add_phone_number(tbl, p) ==
  IF StatusOf(tbl, p) # "absent" THEN tbl
  ELSE Append(tbl, [phone |-> p, status |-> "pending"])

\* Database.remove_phone_number: DELETE ... WHERE phone = ?
remove_phone_number(tbl, p) == SelectSeq(tbl, LAMBDA r : r.phone # p)

\* Database.get_pending_phone_numbers: the pending rows ORDER BY added_at
RECURSIVE PhonesOf(_)
PhonesOf(rows) ==
  IF rows = <<>> THEN <<>> ELSE <<rows[1].phone>> \o PhonesOf(Tail(rows))

get_pending_phone_numbers(tbl) ==
  PhonesOf(SelectSeq(tbl, LAMBDA r : r.status = "pending"))

\* the update without its WHERE clause
set_status_every_row(tbl, p, st) ==
  [i \in RowIdx(tbl) |-> [tbl[i] EXCEPT !.status = st]]

\* 'UPDATE phone_numbers SET status = ? WHERE phone = ?'
set_status(tbl, p, st) ==
  [i \in RowIdx(tbl) |-> IF tbl[i].phone = p THEN [tbl[i] EXCEPT !.status = st]
                         ELSE tbl[i]]

mark_phone_added(tbl, p) == set_status(tbl, p, "added")

mark_phone_invited(tbl, p) == set_status(tbl, p, "invited")

mark_phone_failed(tbl, p) == set_status(tbl, p, "failed")

(***************************************************************************)
(* The state of add_users_to_group between two runs, and the histories.    *)
(***************************************************************************)
NoResults == [added |-> 0, failed |-> 0, invited |-> 0, skipped |-> 0]

NoRun == [pc |-> "idle", pending_phones |-> <<>>, available_sessions |-> <<>>,
          session_index |-> 0, pos |-> 1, batch_size |-> 1,
          invite_link |-> FALSE, results |-> NoResults]

NoResult == [success |-> FALSE, cause |-> "none", results |-> NoResults]

\* what a run began with.  admin: the admin handle was not asked for or
\* was obtained; group: the group resolution was not reached or succeeded
NoStart == [targets |-> <<>>, candidates |-> <<>>, totals |-> <<>>,
            batch_size |-> 1, admin |-> TRUE, group |-> TRUE]

NoTrace == [start |-> NoStart, picks |-> <<>>, faults |-> FALSE,
            batch_delays |-> 0]

\* no second run
NoOther == [run |-> NoRun, result |-> NoResult, trace |-> NoTrace]

NoContact == [was |-> FALSE, imported |-> FALSE, refused |-> FALSE, after |-> FALSE]

\* the additions a session has on record, all days together
RECURSIVE TotalUpTo(_, _, _)
TotalUpTo(tbl, name, day) ==
  added_today(tbl, name, day)
    + (IF day = 0 THEN 0 ELSE TotalUpTo(tbl, name, day - 1))

TotalAdded(tbl, name) == TotalUpTo(tbl, name, MaxDay)

(***************************************************************************)
(* The operator's side: phone import and removal (main.py:512-557), the    *)
(* two toggles (main.py:677-690), and the calendar.                        *)
(***************************************************************************)
\* phones are interchangeable: a phone that is not in the table is the smallest
\* such
ImportPhone(p) ==
  /\ \A q \in Phones : q < p => StatusOf(phone_numbers, q) # "absent"
  /\ phone_numbers' = add_phone_number(phone_numbers, p)
  /\ UNCHANGED <<session_limits, settings, today, max_daily, admin_groups, other,
                 run, result, trace, incr_calls, last_contact>>
  /\ UNCHANGED <<qrVars, schedVars>>

RemovePhone(p) ==
  /\ StatusOf(phone_numbers, p) # "absent"
  /\ phone_numbers' = remove_phone_number(phone_numbers, p)
  /\ UNCHANGED <<session_limits, settings, today, max_daily, admin_groups, other,
                 run, result, trace, incr_calls, last_contact>>
  /\ UNCHANGED <<qrVars, schedVars>>

SetUseAdminAsUser(enabled) ==
  /\ settings.use_admin_as_user # enabled
  /\ settings' = [settings EXCEPT !.use_admin_as_user = enabled]
  /\ UNCHANGED <<phone_numbers, session_limits, today, max_daily,
                 admin_groups, other, run, result, trace, incr_calls, last_contact>>
  /\ UNCHANGED <<qrVars, schedVars>>

SetUseUserAsAdmin(enabled) ==
  /\ settings.use_user_as_admin # enabled
  /\ settings' = [settings EXCEPT !.use_user_as_admin = enabled]
  /\ UNCHANGED <<phone_numbers, session_limits, today, max_daily,
                 admin_groups, other, run, result, trace, incr_calls, last_contact>>
  /\ UNCHANGED <<qrVars, schedVars>>

\* midnight: date.today() moves on
NextDay ==
  /\ today < MaxDay
  /\ today' = today + 1
  /\ UNCHANGED <<phone_numbers, session_limits, settings, max_daily,
                 admin_groups, other, run, result, trace, incr_calls, last_contact>>
  /\ UNCHANGED <<qrVars, schedVars>>

(***************************************************************************)
(* get_admin_session_client.  ok: the handle it looks at connects and is   *)
(* authorized.  With a stored admin session the cached handle is used when *)
(* it is connected, else the handle is loaded from the admins directory    *)
(* and cached.  Without one, and with use_user_as_admin, the first usable  *)
(* handle of the user partition stands in.  0 is None.                     *)
(***************************************************************************)
RECURSIVE first_usable(_, _)
first_usable(order, usable) ==
  IF order = <<>> THEN 0
  ELSE IF Head(order) \in usable THEN Head(order)
  ELSE first_usable(Tail(order), usable)

get_admin_session_client(as, order, usable, ok) ==
  LET session_name == get_admin_session IN
  IF session_name = 0
  THEN IF settings.use_user_as_admin THEN first_usable(order, usable) ELSE 0
  ELSE IF ok /\ (as[session_name] = "conn" \/ session_name \in admin_files)
       THEN session_name ELSE 0

\* the admin registry after get_admin_session_client
admin_sessions_after(as, ok) ==
  LET session_name == get_admin_session IN
  IF session_name # 0 /\ ok /\ as[session_name] # "conn"
       /\ session_name \in admin_files
  THEN [as EXCEPT ![session_name] = "conn"] ELSE as

(***************************************************************************)
(* add_users_to_group, lines 1373-1403: the candidate list.  order is the  *)
(* iteration order of the dict self.sessions, usable the handles that are  *)
(* connected and authorized when they are looked at.                       *)
(***************************************************************************)
Perms(S) ==
  {f \in [1..Cardinality(S) -> S] :
      \A i, j \in 1..Cardinality(S) : i # j => f[i] # f[j]}

RECURSIVE user_candidates(_, _)
user_candidates(order, usable) ==
  IF order = <<>> THEN <<>>
  ELSE LET name == Head(order)
           remaining == get_session_daily_limit(session_limits, name, today, max_daily) IN
       (IF name \in usable /\ remaining > 0
          THEN << <<name, remaining>> >> ELSE <<>>)
         \o user_candidates(Tail(order), usable)

\* what the histories record when a run starts
StartOf(pending, cands, bs, c2, groupOk) ==
  [start |-> [targets |-> pending, candidates |-> cands,
              totals |-> [k \in 1..Len(cands) |->
                             TotalAdded(session_limits, cands[k][1])],
              batch_size |-> bs,
              admin |-> cands = <<>> \/ c2 # 0,
              group |-> cands = <<>> \/ c2 = 0 \/ groupOk],
   picks |-> <<>>, faults |-> FALSE, batch_delays |-> 0]

\* the exits with the group resolution never failing the run
fail_fast_group_ignored(cands, c2, groupOk, bs) ==
  IF cands = <<>> THEN "no_sessions"
  ELSE IF c2 = 0 THEN "no_admin"
  ELSE IF bs = 0 THEN "range"
  ELSE "none"

\* the exits of add_users_to_group before the first phone, in the order of
\* the code: no candidate (lines 1404-1409), no admin handle (1412-1428),
\* the group resolution raises (1456-1459, caught at 1570-1574), and
\* range(0, len, 0) raises ValueError inside the same try
fail_fast(cands, c2, groupOk, bs) ==
  IF cands = <<>> THEN "no_sessions"
  ELSE IF c2 = 0 THEN "no_admin"
  ELSE IF ~groupOk THEN "group"
  ELSE IF bs = 0 THEN "range"
  ELSE "none"

(***************************************************************************)
(* add_users_to_group from its entry to the first per-target step: the     *)
(* pending snapshot, _load_all_sessions (loaded), the candidate list, the  *)
(* admin handle as a candidate, the fail-fast exits, the group resolution  *)
(* (groupOk), the invite link (linkOk) and range(0, len, batch_size).      *)
(***************************************************************************)
RunStart(bs, adminOk1, adminOk2, groupOk, linkOk) ==
  /\ run.pc = "idle"
  /\ LET pending == get_pending_phone_numbers(phone_numbers) IN
     IF pending = <<>>
     THEN /\ result' = [NoResult EXCEPT !.cause = "no_pending"]
          /\ run' = [NoRun EXCEPT !.pc = "done"]
          /\ UNCHANGED <<sessions, admin_sessions, trace>>
     ELSE
       \E loaded \in SUBSET Loadable :
          LET s1 == [n \in Names |-> IF n \in loaded THEN "conn" ELSE sessions[n]]
              keys == {n \in Names : s1[n] # "absent"} IN
          \E usable \in SUBSET keys, order \in Perms(keys) :
             LET s2 == [n \in Names |-> IF n \in usable THEN "conn" ELSE s1[n]]
                 users == user_candidates(order, usable)
                 flag == settings.use_admin_as_user
                 admin_name == get_admin_session
                 c1 == IF flag
                       THEN get_admin_session_client(admin_sessions, order, usable, adminOk1)
                       ELSE 0
                 as1 == IF flag THEN admin_sessions_after(admin_sessions, adminOk1)
                        ELSE admin_sessions
                 remaining == get_session_daily_limit(session_limits, admin_name,
                                                      today, max_daily)
                 asUser == flag /\ c1 # 0 /\ admin_name # 0 /\ remaining > 0
                 cands == IF asUser THEN Append(users, <<admin_name, remaining>>)
                          ELSE users
                 \* line 1402: the admin handle is put into self.sessions
                 s3 == IF asUser THEN [s2 EXCEPT ![admin_name] = "conn"] ELSE s2
                 c2 == get_admin_session_client(as1, order, usable, adminOk2)
                 as2 == admin_sessions_after(as1, adminOk2)
                 cause == fail_fast(cands, c2, groupOk, bs)
             IN
             /\ flag \/ adminOk1
             /\ sessions' = s3
             /\ admin_sessions' = IF cands = <<>> THEN as1 ELSE as2
             /\ trace' = StartOf(pending, cands, bs, c2, groupOk)
             /\ IF cause # "none"
                THEN /\ result' = [NoResult EXCEPT !.cause = cause]
                     /\ run' = [NoRun EXCEPT !.pc = "done"]
                ELSE IF bs < 0
                THEN \* range(0, len, batch_size) is empty: nothing is processed
                     /\ result' = [NoResult EXCEPT !.success = TRUE]
                     /\ run' = [NoRun EXCEPT !.pc = "done"]
                ELSE /\ run' = [pc |-> "running", pending_phones |-> pending,
                                available_sessions |-> cands, session_index |-> 0,
                                pos |-> 1, batch_size |-> bs,
                                invite_link |-> linkOk, results |-> NoResults]
                     /\ UNCHANGED result
  /\ UNCHANGED <<phone_numbers, session_limits, settings, today, max_daily,
                 admin_groups, other, incr_calls, last_contact>>
  /\ UNCHANGED <<qrOnlyVars, schedVars>>

(***************************************************************************)
(* Lines 1487-1497: the session for the next phone.  The search starts at  *)
(* session_index and examines len(available_sessions) positions; the       *)
(* result is session_idx, or -1 when session_found stays False.            *)
(***************************************************************************)
RECURSIVE find_session(_, _, _)
find_session(available_sessions, session_index, j) ==
  IF j >= Len(available_sessions) THEN -1
  ELSE LET session_idx == (session_index + j) % Len(available_sessions) IN
       IF available_sessions[session_idx + 1][2] > 0 THEN session_idx
       ELSE find_session(available_sessions, session_index, j + 1)

\* a faulty variant: the search restarts at the session selected last
next_index_same(session_idx) == session_idx

\* line 1495: session_index = session_idx + 1
next_index(session_idx) == session_idx + 1

(***************************************************************************)
(* _process_phone_number: what it returns.  listed: the phone is in the    *)
(* set get_active_contact_lists built from the dialogs; groupOk: lines     *)
(* 1806-1807 resolve the group; entityOk: the phone resolves to a user;    *)
(* invite: what _invite_entity_to_group answers; link, sendOk: an invite   *)
(* link exists and _send_invite_link delivers it.                          *)
(***************************************************************************)
process_phone_number(groupOk, entityOk, invite, link, sendOk) ==
  IF ~groupOk THEN "failed"
  ELSE IF ~entityOk THEN (IF link /\ sendOk THEN "invited" ELSE "failed")
  ELSE IF invite = "ok" THEN "added"
  ELSE IF invite = "privacy" THEN (IF link /\ sendOk THEN "invited" ELSE "failed")
  ELSE IF invite = "not_mutual" THEN (IF link /\ sendOk THEN "invited" ELSE "failed")
  ELSE (IF link /\ sendOk THEN "invited" ELSE "failed")

(***************************************************************************)
(* The temporary contact of _process_phone_number.  was: the phone is a    *)
(* contact of the session before the step.  The phone is imported when it  *)
(* is not listed; the finally clause of the inner try removes it again,    *)
(* and that clause is entered only when lines 1806-1807 did not raise.     *)
(***************************************************************************)
temp_contact(was, listed, importOk, groupOk, removeOk) ==
  LET contact_added == ~listed /\ importOk
      removing == groupOk /\ contact_added IN
  [was |-> was, imported |-> contact_added, refused |-> removing /\ ~removeOk,
   after |-> IF removing /\ removeOk THEN FALSE ELSE was \/ contact_added]

\* the answers of _invite_entity_to_group; flood: FloodWaitError, after which
\* the routine sleeps e.seconds + 5 and answers like any other error
Invites == {"ok", "privacy", "not_mutual", "flood", "error"}

\* lines 1561-1568: the batch of the phone at pos is left, and the longer
\* delay is slept when a further batch exists (i + batch_size < len)
batch_delay(pos, batch_size, len) ==
  IF ((pos - 1) \div batch_size) * batch_size + batch_size < len THEN 1 ELSE 0

(***************************************************************************)
(* One iteration of the loop over a batch (lines 1480-1559): selection,    *)
(* the per-target step, and the bookkeeping of its result.                 *)
(***************************************************************************)
ProcessTarget(was, listed, importOk, groupOk, entityOk, invite, sendOk, removeOk) ==
  /\ run.pc = "running"
  /\ run.pos <= Len(run.pending_phones)
  /\ LET phone == run.pending_phones[run.pos]
         len == Len(run.pending_phones)
         session_idx == find_session(run.available_sessions, run.session_index, 0)
         r == run.results
     IN
     IF session_idx = -1
     THEN \* lines 1499-1502: skipped is counted and the batch is left
          /\ run' = [run EXCEPT
                !.results.skipped = len - (r.added + r.failed + r.invited),
                !.pos = ((run.pos - 1) \div run.batch_size) * run.batch_size
                          + run.batch_size + 1]
          /\ trace' = [trace EXCEPT
                !.picks = Append(@, 0),
                !.batch_delays = @ + batch_delay(run.pos, run.batch_size, len)]
          /\ UNCHANGED <<phone_numbers, session_limits, incr_calls,
                         last_contact, result>>
     ELSE
       LET session_name == run.available_sessions[session_idx + 1][1]
           remaining == run.available_sessions[session_idx + 1][2]
           success == process_phone_number(groupOk, entityOk, invite,
                                           run.invite_link, sendOk)
       IN
       IF sessions[session_name] = "absent"
       THEN \* line 1494: KeyError, caught at line 1570
            /\ result' = [NoResult EXCEPT !.cause = "key_error"]
            /\ run' = [NoRun EXCEPT !.pc = "done"]
            /\ UNCHANGED <<phone_numbers, session_limits, incr_calls,
                           last_contact, trace>>
       ELSE
         /\ last_contact' = temp_contact(was, listed, importOk, groupOk, removeOk)
         /\ trace' = [trace EXCEPT
               !.picks = Append(@, session_name),
               !.faults = @ \/ success # "added",
               !.batch_delays =
                   @ + IF run.pos % run.batch_size = 0
                       THEN batch_delay(run.pos, run.batch_size, len) ELSE 0]
         /\ UNCHANGED result
         /\ IF success = "added"
            THEN /\ phone_numbers' = mark_phone_added(phone_numbers, phone)
                 /\ session_limits' =
                       increment_session_limit(session_limits, session_name, today)
                 /\ incr_calls' = [incr_calls EXCEPT ![session_name][today] = @ + 1]
                 /\ run' = [run EXCEPT
                       !.results.added = @ + 1,
                       !.available_sessions[session_idx + 1] =
                            <<session_name, remaining - 1>>,
                       !.session_index = next_index(session_idx),
                       !.pos = @ + 1]
            ELSE /\ phone_numbers' =
                       IF success = "invited"
                       THEN mark_phone_invited(phone_numbers, phone)
                       ELSE mark_phone_failed(phone_numbers, phone)
                 /\ run' = [run EXCEPT
                       !.results.invited = IF success = "invited" THEN @ + 1 ELSE @,
                       !.results.failed = IF success = "failed" THEN @ + 1 ELSE @,
                       !.session_index = next_index(session_idx),
                       !.pos = @ + 1]
                 /\ UNCHANGED <<session_limits, incr_calls>>
  /\ UNCHANGED <<settings, today, max_daily, admin_groups, other>>
  /\ UNCHANGED <<qrVars, schedVars>>

\* lines 1576-1588: the loops are over, the results are returned
RunFinish ==
  /\ run.pc = "running"
  /\ run.pos > Len(run.pending_phones)
  /\ result' = [success |-> TRUE, cause |-> "none", results |-> run.results]
  /\ run' = [NoRun EXCEPT !.pc = "done"]
  /\ UNCHANGED <<phone_numbers, session_limits, settings, today, max_daily,
                 admin_groups, other, trace, incr_calls, last_contact>>
  /\ UNCHANGED <<qrVars, schedVars>>

\* the caller (the supervisor's cycle or an API handler) has the return value;
\* the histories of the run end here
RunReturn ==
  /\ run.pc = "done"
  /\ run' = NoRun
  /\ result' = NoResult
  /\ trace' = NoTrace
  /\ last_contact' = NoContact
  /\ UNCHANGED <<phone_numbers, session_limits, settings, today, max_daily,
                 admin_groups, other, incr_calls>>
  /\ UNCHANGED <<qrVars, schedVars>>

(***************************************************************************)
(* The supervisor (auto_add.py).  An instant is a number of ticks; a day   *)
(* has DayLen of them, and the daily_start_time "H:M" names minute M of    *)
(* hour H of a day.  None is the empty tuple, a value v is <<v>>.          *)
(***************************************************************************)
\* hours of a day
HoursPerDay == 2
\* minutes of an hour, one tick each
MinutesPerHour == 2

DayLen == HoursPerDay * MinutesPerHour

\* _min_run_interval, in ticks
min_run_interval == 1

\* poll_interval, in ticks
poll_interval == 2

\* the settings the supervisor reads and writes; last_result is "none", "ok"
\* (a result with success true), "failed" (a result with success false) or
\* "error" (the record of an exception); target_group: target_group_id holds
\* a group id (None and 0 are both "not target_group" at line 110)
NoAutoAdd == [enabled |-> FALSE, target_group |-> FALSE,
              daily_start_time |-> <<>>, last_run |-> <<>>,
              forced_wakeup |-> FALSE, last_result |-> "none"]

\* the automation settings with a target group configured
GroupSet == [NoAutoAdd EXCEPT !.target_group = TRUE]

\* AutoAddSupervisor.__init__ (lines 16-23).  pc: where the loop task is;
\* task: self._task is set; stop: the stop event is set; running:
\* _status['running']; loops: the loop tasks created so far; events: the
\* pairs of event objects created so far; shutdown: where the one call of
\* shutdown() is; inflight: a cycle was executing when shutdown() was
\* called; last_end: when the last cycle ended; last_raised: it ended by
\* an exception; timeout: what the _wait in progress was called with, 0
\* when the loop is not in _wait
NoSupervisor == [pc |-> "stopped", now_utc |-> 0, next_run |-> <<>>,
                 task |-> FALSE, stop |-> FALSE, running |-> FALSE,
                 loops |-> 0, events |-> 1, shutdown |-> "none",
                 inflight |-> FALSE, last_end |-> <<>>, last_raised |-> FALSE,
                 timeout |-> 0]

\* nothing scheduled, the supervisor not started
NoSchedule ==
  /\ auto_add = NoAutoAdd
  /\ clock = 0
  /\ supervisor = NoSupervisor

\* datetime.now(timezone.utc)
Now == today * DayLen + clock

\* datetime.date()
date(t) == t \div DayLen

\* the values a stored daily_start_time splits into; hour HoursPerDay and
\* minute MinutesPerHour are what time(hour, minute) refuses
StartTimes == {<<>>} \cup ((0..HoursPerDay) \X (0..MinutesPerHour))

\* lines 207-211: the start instant of the day of now_utc, or now_utc when
\* the setting does not parse
\* the start instant taken on the day after now
start_today_next_day(daily_start, now_utc) ==
  IF daily_start[1] < HoursPerDay /\ daily_start[2] < MinutesPerHour
  THEN (date(now_utc) + 1) * DayLen
         + daily_start[1] * MinutesPerHour + daily_start[2]
  ELSE now_utc

start_today(daily_start, now_utc) ==
  IF daily_start[1] < HoursPerDay /\ daily_start[2] < MinutesPerHour
  THEN date(now_utc) * DayLen + daily_start[1] * MinutesPerHour + daily_start[2]
  ELSE now_utc

\* the computation with a run exactly at the start instant not counted
calculate_next_run_strict(aa, now_utc) ==
  IF aa.forced_wakeup THEN now_utc
  ELSE IF aa.daily_start_time # <<>>
  THEN LET st == start_today(aa.daily_start_time, now_utc)
       IN IF /\ aa.last_run # <<>>
             /\ date(aa.last_run[1]) = date(now_utc)
             /\ aa.last_run[1] > st
          THEN st + DayLen
          ELSE IF now_utc >= st THEN now_utc ELSE st
  ELSE IF aa.last_run = <<>> THEN now_utc
  ELSE LET earliest_next == aa.last_run[1] + min_run_interval
       IN IF earliest_next > now_utc THEN earliest_next ELSE now_utc

\* _calculate_next_run, the value it returns (the flag it clears is cleared
\* in Heartbeat)
calculate_next_run(aa, now_utc) ==
  IF aa.forced_wakeup THEN now_utc
  ELSE IF aa.daily_start_time # <<>>
  THEN LET st == start_today(aa.daily_start_time, now_utc)
       IN IF /\ aa.last_run # <<>>
             /\ date(aa.last_run[1]) = date(now_utc)
             /\ aa.last_run[1] >= st
          THEN st + DayLen
          ELSE IF now_utc >= st THEN now_utc ELSE st
  ELSE IF aa.last_run = <<>> THEN now_utc
  ELSE LET earliest_next == aa.last_run[1] + min_run_interval
       IN IF earliest_next > now_utc THEN earliest_next ELSE now_utc

\* a tick of the wall clock; midnight moves date.today() on
Tick ==
  /\ IF clock + 1 < DayLen
     THEN clock' = clock + 1 /\ UNCHANGED today
     ELSE today < MaxDay /\ today' = today + 1 /\ clock' = 0
  /\ UNCHANGED <<phone_numbers, session_limits, settings, max_daily,
                 admin_groups, other, run, result, trace, incr_calls, last_contact,
                 auto_add, supervisor>>
  /\ UNCHANGED qrVars

\* self._task.done(): the loop task has returned
task_done(sup) == sup.pc = "exited"

\* start() without the test of line 31
start_unguarded(sup) ==
  [sup EXCEPT !.pc = "heartbeat", !.task = TRUE, !.stop = FALSE,
              !.events = @ + 1, !.loops = @ + 1]

\* start() (lines 28-36): nothing while the loop task is alive, else new
\* event objects and a new loop task
start(sup) ==
  IF sup.task /\ ~task_done(sup)
  THEN sup
  ELSE [sup EXCEPT !.pc = "heartbeat", !.task = TRUE, !.stop = FALSE,
                   !.events = @ + 1, !.loops = @ + 1]

\* the application starts the supervisor (main.py:94); _run_loop begins by
\* writing auto_add_last_run (line 82)
SupervisorStart ==
  /\ supervisor.pc = "stopped"
  /\ supervisor.shutdown = "none"
  /\ auto_add' = [auto_add EXCEPT !.last_run = <<Now>>]
  /\ supervisor' = start(supervisor)
  /\ UNCHANGED <<qrVars, engineVars, clock>>

\* POST /api/admin/auto-add/start (main.py:720-731): enable, clear the last
\* run, start() and wake_up(immediate=True), which ends the wait of a
\* waiting loop; a loop that start() created writes auto_add_last_run
StartAutoAdd ==
  /\ supervisor.shutdown = "none"
  /\ ~auto_add.enabled \/ ~auto_add.forced_wakeup \/ auto_add.last_run # <<>>
  /\ LET started == start(supervisor)
     IN /\ auto_add' = [auto_add EXCEPT
                          !.enabled = TRUE,
                          !.last_run = IF started.loops # supervisor.loops
                                       THEN <<Now>> ELSE <<>>,
                          !.forced_wakeup = TRUE]
        /\ supervisor' = [started EXCEPT
                            !.pc = IF @ = "waiting" THEN "heartbeat" ELSE @,
                            !.timeout = 0]
  /\ UNCHANGED <<qrVars, engineVars, clock>>

\* the timeout of the _wait a pass of the loop ends in (lines 105-128):
\* the poll interval when the automation is disabled, has no target group
\* or no pending phone, else the time to the next run, at most the poll
\* interval (the floors of 30 s and 5 s are below one tick)
\* the timeout always taken from the schedule
wait_timeout_to_next_run(aa, pending_count, now_utc, next_run) ==
  IF next_run - now_utc < poll_interval THEN next_run - now_utc
  ELSE poll_interval

wait_timeout(aa, pending_count, now_utc, next_run) ==
  IF ~aa.enabled \/ ~aa.target_group \/ pending_count = 0
  THEN poll_interval
  ELSE IF next_run - now_utc < poll_interval THEN next_run - now_utc
       ELSE poll_interval

\* one pass of _run_loop up to its decision (lines 83-131); a launch enters
\* _execute_cycle, which sets the running flag before it first awaits
\* (lines 137-138)
Heartbeat ==
  /\ supervisor.pc = "heartbeat"
  /\ ~supervisor.stop
  /\ LET now_utc == Now
         next_run == calculate_next_run(auto_add, now_utc)
         pending_count == Len(get_pending_phone_numbers(phone_numbers))
         launch == /\ auto_add.enabled
                   /\ auto_add.target_group
                   /\ pending_count # 0
                   /\ ~(now_utc < next_run)
     IN /\ auto_add' = [auto_add EXCEPT !.forced_wakeup = FALSE]
        /\ supervisor' = [supervisor EXCEPT
                            !.pc = IF launch THEN "cycle" ELSE "waiting",
                            !.now_utc = now_utc,
                            !.next_run = <<next_run>>,
                            !.running = launch,
                            !.timeout = IF launch THEN 0
                                        ELSE wait_timeout(auto_add, pending_count,
                                                          now_utc, next_run)]
  /\ UNCHANGED <<qrVars, engineVars, clock>>

\* _wait returns: the timeout passed, or the wake or the stop event was set
WaitOver ==
  /\ supervisor.pc = "waiting"
  /\ supervisor' = [supervisor EXCEPT !.pc = "heartbeat", !.timeout = 0]
  /\ UNCHANGED <<qrVars, engineVars, clock, auto_add>>

\* the loop finds the stop event set (line 83) and returns
LoopExit ==
  /\ supervisor.pc = "heartbeat"
  /\ supervisor.stop
  /\ supervisor' = [supervisor EXCEPT !.pc = "exited"]
  /\ UNCHANGED <<qrVars, engineVars, clock, auto_add>>

\* _execute_cycle calls add_users_to_group (lines 144-161) with the batch
\* size of the settings, which `or 5` keeps from being 0.  The load of
\* refresh_active_sessions is the one add_users_to_group begins with; its
\* health check is taken to find every handle healthy.
CycleStart ==
  /\ supervisor.pc = "cycle"
  /\ \E bs \in 1..MaxBatch, adminOk2 \in BOOLEAN, groupOk \in BOOLEAN :
        \E adminOk1 \in IF settings.use_admin_as_user THEN BOOLEAN ELSE {TRUE},
           linkOk \in IF adminOk2 /\ groupOk THEN BOOLEAN ELSE {FALSE} :
           RunStart(bs, adminOk1, adminOk2, groupOk, linkOk)

\* _execute_cycle without its except and finally clauses: an exception
\* goes through the loop and ends the task
execute_cycle_exit_unhandled(sup, raised, t) ==
  IF raised
  THEN [sup EXCEPT !.pc = "exited", !.last_end = <<t>>, !.last_raised = TRUE]
  ELSE [sup EXCEPT !.pc = "heartbeat", !.running = FALSE,
                   !.last_end = <<t>>, !.last_raised = FALSE]

\* the way out of _execute_cycle (lines 173-183): an exception is caught,
\* the finally clause clears the running flag, and the loop goes on
execute_cycle_exit(sup, raised, t) ==
  [sup EXCEPT !.pc = "heartbeat", !.running = FALSE,
              !.last_end = <<t>>, !.last_raised = raised]

\* _execute_cycle has the result (lines 162-172, 179-183): it is stored,
\* and auto_add_last_run is now
CycleFinish ==
  /\ supervisor.pc = "cycle"
  /\ run.pc = "done"
  /\ auto_add' = [auto_add EXCEPT
                    !.last_run = <<Now>>,
                    !.last_result = IF result.success THEN "ok" ELSE "failed"]
  /\ supervisor' = execute_cycle_exit(supervisor, FALSE, Now)
  /\ run' = NoRun
  /\ result' = NoResult
  /\ trace' = NoTrace
  /\ last_contact' = NoContact
  /\ UNCHANGED <<phone_numbers, session_limits, settings, today, max_daily,
                 admin_groups, other, incr_calls, clock>>
  /\ UNCHANGED qrVars

\* add_users_to_group raises before its own try block, at the store's
\* add_operation (session_manager.py:1357): the except clause of
\* _execute_cycle stores the error (lines 173-178), and line 172, which
\* writes auto_add_last_run, is not reached
CycleRaise ==
  /\ supervisor.pc = "cycle"
  /\ run.pc = "idle"
  /\ auto_add' = [auto_add EXCEPT !.last_result = "error"]
  /\ supervisor' = execute_cycle_exit(supervisor, TRUE, Now)
  /\ UNCHANGED <<qrVars, engineVars, clock>>

\* shutdown() up to its await (lines 38-46), called once, when the
\* application stops (main.py:105): without a task it returns at once
Shutdown ==
  /\ supervisor.shutdown = "none"
  /\ supervisor' = IF ~supervisor.task
                   THEN [supervisor EXCEPT !.shutdown = "returned"]
                   ELSE [supervisor EXCEPT !.stop = TRUE, !.task = FALSE,
                                           !.shutdown = "awaiting",
                                           !.inflight = supervisor.running]
  /\ UNCHANGED <<qrVars, engineVars, clock, auto_add>>

\* shutdown() not waiting for the loop task
shutdown_returns_early(sup) == sup.shutdown = "awaiting"

\* `await task` (line 48) is over
shutdown_returns(sup) == sup.shutdown = "awaiting" /\ task_done(sup)

\* shutdown() after its await (lines 49-52)
ShutdownReturn ==
  /\ shutdown_returns(supervisor)
  /\ auto_add' = [auto_add EXCEPT !.enabled = FALSE]
  /\ supervisor' = [supervisor EXCEPT !.shutdown = "returned"]
  /\ UNCHANGED <<qrVars, engineVars, clock>>

(***************************************************************************)
(* Process restart: SessionManager.__init__ again.  The maps of lines      *)
(* 20-23 are empty, every task and connection of the old process is gone;  *)
(* the durable store and the credential files stay.                        *)
(***************************************************************************)
Restart ==
  /\ issued > 0
  /\ qr_sessions' = [n \in Names |-> NoRec]
  /\ sessions' = [n \in Names |-> "absent"]
  /\ admin_sessions' = [n \in Names |-> "absent"]
  /\ user_sessions' = [u \in Identities |-> 0]
  /\ handle' = [n \in Names |-> IF handle[n] = "conn" THEN "disc" ELSE handle[n]]
  /\ pc' = [n \in Names |-> IF pc[n] = "idle" THEN "idle" ELSE "done"]
  /\ reply' = NoReply
  /\ run' = NoRun
  /\ result' = NoResult
  /\ trace' = NoTrace
  /\ last_contact' = NoContact
  /\ UNCHANGED <<db_sessions, db_admin, user_files, admin_files, auth_uid,
                 variant, ignored_ids, issued, dupHit, observed, lock>>
  /\ UNCHANGED <<phone_numbers, session_limits, settings, today, max_daily,
                 admin_groups, other, incr_calls>>
  /\ UNCHANGED schedVars

NextQR ==
  \/ \E admin \in BOOLEAN : IssueBegin(admin)
  \/ \E n \in Names, ok \in BOOLEAN, raises \in BOOLEAN : IssueFinish(n, ok, raises)
  \/ \E n \in Names, u \in Identities : ScanOk(n, u)
  \/ \E n \in Names, outcome \in {"ok", "fail"}, raises \in BOOLEAN :
        SaveScanned(n, outcome, raises)
  \/ \E n \in Names, raises \in BOOLEAN : DuplicateCleanup(n, raises)
  \/ \E n \in Names, u \in Identities : Need2FA(n, u)
  \/ \E n \in Names, raises \in BOOLEAN : ScanTimeout(n, raises)
  \/ \E n \in Names, raises \in BOOLEAN : ScanError(n, raises)
  \/ \E n \in Names, pwOk \in BOOLEAN, outcome \in {"ok", "fail"}, raises \in BOOLEAN :
        VerifyPassword(n, pwOk, outcome, raises)
  \/ \E n \in Names : check_qr_status(n)
  \/ \E n \in Names, raises \in BOOLEAN : cleanup_expired_sessions(n, raises)
  \/ \E n \in Names, logoutOk \in BOOLEAN : RemoveSession(n, logoutOk)
  \/ RemoveAdminSession
  \/ \E fail \in SUBSET Names : HealthCheck(fail)
  \/ \E ok \in SUBSET Names : LoadAll(ok)
  \/ Restart

\* the store before anything was imported, with the default settings
InitEngine ==
  /\ NoSchedule
  /\ phone_numbers = <<>>
  /\ session_limits = {}
  /\ settings = [use_admin_as_user |-> FALSE, use_user_as_admin |-> FALSE]
  /\ today = 0
  /\ run = NoRun
  /\ result = NoResult
  /\ trace = NoTrace
  /\ incr_calls = [n \in Names |-> [d \in Days |-> 0]]
  /\ last_contact = NoContact

\* the process right after its first start: nothing stored, nothing loaded
InitLogin ==
  /\ InitQR
  /\ InitEngine
  /\ max_daily = 1
  /\ admin_groups = NoGroups
  /\ other = NoOther

SpecQR == InitLogin /\ [][NextQR]_vars

\* the steps of the wait task of the attempt n and of what it goes on into
WaitTask(n) ==
  \/ \E ok \in BOOLEAN, raises \in BOOLEAN : IssueFinish(n, ok, raises)
  \/ \E raises \in BOOLEAN : ScanTimeout(n, raises)
  \/ \E outcome \in {"ok", "fail"}, raises \in BOOLEAN :
        SaveScanned(n, outcome, raises)
  \/ \E raises \in BOOLEAN : DuplicateCleanup(n, raises)

\* the janitor's pass over the record n
Janitor(n) == \E raises \in BOOLEAN : cleanup_expired_sessions(n, raises)

\* the event loop runs every task that can go on: the wait of a task ends
\* after 300 seconds at the latest, and the janitor wakes up every 60 seconds
\* for as long as the process runs
SpecQRLive ==
  /\ SpecQR
  /\ \A n \in Names : WF_vars(WaitTask(n)) /\ WF_vars(Janitor(n))

(***************************************************************************)
(* The registry after the user logins of the names in users and the admin  *)
(* login of the name admin, each by an identity of its own, once the       *)
(* status queries consumed the attempt records and the sessions were       *)
(* loaded.                                                                 *)
(***************************************************************************)
Registered(users, admin) ==
  /\ qr_sessions = [n \in Names |-> NoRec]
  /\ sessions = [n \in Names |-> IF n \in users THEN "conn" ELSE "absent"]
  /\ admin_sessions = [n \in Names |-> IF n = admin THEN "disc" ELSE "absent"]
  /\ user_sessions = [u \in Identities |-> IF u \in users THEN u ELSE 0]
  /\ db_sessions = users
  /\ db_admin = <<[session_name |-> admin, user_id |-> admin]>>
  /\ user_files = users
  /\ admin_files = {admin}
  /\ handle = [n \in Names |-> IF n \in users \cup {admin} THEN "disc" ELSE "none"]
  /\ auth_uid = [n \in Names |-> IF n \in users \cup {admin} THEN n ELSE NoId]
  /\ pc = [n \in Names |-> IF n \in users \cup {admin} THEN "done" ELSE "idle"]
  /\ variant = [n \in Names |-> IF n \in users THEN "user"
                                ELSE IF n = admin THEN "admin" ELSE "none"]
  /\ ignored_ids = [n \in Names |-> {}]
  /\ issued = 3
  /\ reply = NoReply
  /\ dupHit = [n \in Names |-> FALSE]
  /\ observed = {}
  /\ lock = 0

(***************************************************************************)
(* The answers of the network to a run.  An answer is drawn only where the *)
(* code asks for it.                                                       *)
(***************************************************************************)
StartRun ==
  \E bs \in -1..MaxBatch, adminOk2 \in BOOLEAN, groupOk \in BOOLEAN :
     \E adminOk1 \in IF settings.use_admin_as_user THEN BOOLEAN ELSE {TRUE},
        linkOk \in IF adminOk2 /\ groupOk /\ bs > 0 THEN BOOLEAN ELSE {FALSE} :
        RunStart(bs, adminOk1, adminOk2, groupOk, linkOk)

\* what a per-target step is answered once the contact is dealt with
Answers ==
  {a \in [groupOk : BOOLEAN, entityOk : BOOLEAN, invite : Invites, sendOk : BOOLEAN] :
     /\ ~a.groupOk => a.entityOk /\ a.invite = "ok" /\ a.sendOk
     /\ ~a.entityOk => a.invite = "ok"
     /\ (a.entityOk /\ a.invite = "ok") => a.sendOk
     /\ ~run.invite_link => a.sendOk}

TargetStep ==
  \E a \in Answers, was \in BOOLEAN, listed \in BOOLEAN :
     \E importOk \in IF listed THEN {TRUE} ELSE BOOLEAN :
        \E removeOk \in IF ~listed /\ importOk /\ a.groupOk THEN BOOLEAN ELSE {TRUE} :
           ProcessTarget(was, listed, importOk, a.groupOk, a.entityOk, a.invite,
                         a.sendOk, removeOk)

\* the per-target step for phones that are contacts and listed in the dialogs
\* of the session: no temporary contact is needed
TargetStepListed ==
  \E a \in Answers :
     ProcessTarget(TRUE, TRUE, TRUE, a.groupOk, a.entityOk, a.invite, a.sendOk, TRUE)

(***************************************************************************)
(* Runs of the distribution engine, one at a time, while the operator      *)
(* imports and removes phones and switches use_admin_as_user, over the     *)
(* days.                                                                   *)
(***************************************************************************)
\* the larger caps are run with the admin handle alone
InitRun ==
  /\ \E users \in SUBSET {1} : Registered(users, 3)
  /\ InitEngine
  /\ max_daily \in 1..MaxCap
  /\ admin_groups = NoGroups
  /\ other = NoOther
  /\ db_sessions = {} \/ max_daily = 1

OperatorImports ==
  \E p \in Phones : p <= MaxQueue /\ ImportPhone(p)

NextRun ==
  \/ StartRun
  \/ TargetStepListed
  \/ RunFinish
  \/ RunReturn
  \/ OperatorImports
  \/ \E p \in Phones : RemovePhone(p)
  \/ \E enabled \in BOOLEAN : SetUseAdminAsUser(enabled)
  \/ NextDay

SpecRun == InitRun /\ [][NextRun]_vars

(***************************************************************************)
(* Runs over a queue and a ledger that are already filled: two user        *)
(* sessions and the admin session, each with some additions on record for  *)
(* today, and the first phones of the queue pending.                       *)
(***************************************************************************)
LedgerOf(count) ==
  {[session_name |-> n, date |-> 0, users_added |-> count[n]] :
      n \in {m \in Names : count[m] > 0}}

InitSelect ==
  /\ NoSchedule
  /\ Registered({1, 2}, 3)
  /\ max_daily \in 1..MaxCap
  /\ admin_groups = NoGroups
  /\ other = NoOther
  /\ \E count \in [Names -> 0..MaxCap] :
        /\ \A n \in Names : count[n] <= max_daily
        /\ session_limits = LedgerOf(count)
        /\ incr_calls = [n \in Names |-> [d \in Days |-> IF d = 0 THEN count[n] ELSE 0]]
  /\ \E n \in Phones :
        phone_numbers = [i \in 1..n |-> [phone |-> i, status |-> "pending"]]
  /\ settings = [use_admin_as_user |-> TRUE, use_user_as_admin |-> FALSE]
  /\ today = 0
  /\ run = NoRun
  /\ result = NoResult
  /\ trace = NoTrace
  /\ last_contact = NoContact

NextSelect ==
  \/ StartRun
  \/ TargetStepListed
  \/ RunFinish

SpecSelect == InitSelect /\ [][NextSelect]_vars

(***************************************************************************)
(* The per-target step with every state of the session's contacts and      *)
(* dialogs, for one user session and the admin session.                    *)
(***************************************************************************)
InitContact ==
  /\ NoSchedule
  /\ Registered({1}, 3)
  /\ \E n \in 1..MaxQueue :
        phone_numbers = [i \in 1..n |-> [phone |-> i, status |-> "pending"]]
  /\ session_limits = {}
  /\ settings = [use_admin_as_user |-> FALSE, use_user_as_admin |-> FALSE]
  /\ today = 0
  /\ max_daily \in 1..MaxCap
  /\ admin_groups = NoGroups
  /\ other = NoOther
  /\ run = NoRun
  /\ result = NoResult
  /\ trace = NoTrace
  /\ incr_calls = [n \in Names |-> [d \in Days |-> 0]]
  /\ last_contact = NoContact

NextContact ==
  \/ StartRun
  \/ TargetStep
  \/ RunFinish

SpecContact == InitContact /\ [][NextContact]_vars

(***************************************************************************)
(* The supervisor over two days, with the admin session alone, one phone   *)
(* pending and a daily_start_time of any stored value.                     *)
(***************************************************************************)
InitSched ==
  /\ Registered({}, 3)
  /\ phone_numbers = <<[phone |-> 1, status |-> "pending"]>>
  /\ session_limits = {}
  /\ settings = [use_admin_as_user |-> TRUE, use_user_as_admin |-> FALSE]
  /\ today = 0
  /\ max_daily = 1
  /\ admin_groups = NoGroups
  /\ other = NoOther
  /\ run = NoRun
  /\ result = NoResult
  /\ trace = NoTrace
  /\ incr_calls = [n \in Names |-> [d \in Days |-> 0]]
  /\ last_contact = NoContact
  /\ \E ds \in StartTimes : auto_add = [GroupSet EXCEPT !.daily_start_time = ds]
  /\ clock = 0
  /\ supervisor = NoSupervisor

NextSched ==
  \/ SupervisorStart
  \/ StartAutoAdd
  \/ Heartbeat
  \/ WaitOver
  \/ CycleStart
  \/ TargetStepListed
  \/ RunFinish
  \/ CycleFinish
  \/ Tick

SpecSched == InitSched /\ [][NextSched]_vars

\* the process starts over a store in which automation was left enabled,
\* with a daily start time
InitRestart ==
  /\ Registered({}, 3)
  /\ phone_numbers = <<[phone |-> 1, status |-> "pending"]>>
  /\ session_limits = {}
  /\ settings = [use_admin_as_user |-> TRUE, use_user_as_admin |-> FALSE]
  /\ today = 0
  /\ max_daily = 1
  /\ admin_groups = NoGroups
  /\ other = NoOther
  /\ run = NoRun
  /\ result = NoResult
  /\ trace = NoTrace
  /\ incr_calls = [n \in Names |-> [d \in Days |-> 0]]
  /\ last_contact = NoContact
  /\ \E ds \in StartTimes \ {<<>>} :
        auto_add = [GroupSet EXCEPT !.daily_start_time = ds, !.enabled = TRUE]
  /\ clock = 0
  /\ supervisor = NoSupervisor

SpecRestart == InitRestart /\ [][NextSched]_vars

(***************************************************************************)
(* The supervisor from its construction to the end of the application,     *)
(* with no daily_start_time, the admin session alone and one phone         *)
(* pending: a cycle returns a result or raises, and shutdown() is called   *)
(* once.  No request arrives once the application is stopping.             *)
(***************************************************************************)
InitSup ==
  /\ Registered({}, 3)
  /\ phone_numbers = <<[phone |-> 1, status |-> "pending"]>>
  /\ session_limits = {}
  /\ settings = [use_admin_as_user |-> TRUE, use_user_as_admin |-> FALSE]
  /\ today = 0
  /\ max_daily = 1
  /\ admin_groups = NoGroups
  /\ other = NoOther
  /\ run = NoRun
  /\ result = NoResult
  /\ trace = NoTrace
  /\ incr_calls = [n \in Names |-> [d \in Days |-> 0]]
  /\ last_contact = NoContact
  /\ auto_add = GroupSet
  /\ clock = 0
  /\ supervisor = NoSupervisor

NextSup ==
  \/ SupervisorStart
  \/ StartAutoAdd
  \/ Heartbeat
  \/ WaitOver
  \/ LoopExit
  \/ CycleStart
  \/ TargetStepListed
  \/ RunFinish
  \/ CycleFinish
  \/ CycleRaise
  \/ Shutdown
  \/ ShutdownReturn
  \/ Tick

SpecSup == InitSup /\ [][NextSup]_vars

(***************************************************************************)
(* Properties of the QR authentication state machine.                      *)
(***************************************************************************)
\* the names of the persisted sessions of both partitions
Persisted == db_sessions \cup {r.session_name : r \in AdminRows}

\* C1: in every reachable state no two persisted sessions (rows of table
\* sessions or of table admin_session) are bound to the same network identity.
C1_OneSessionPerIdentity ==
  \A a \in Persisted, b \in Persisted : a # b => auth_uid[a] # auth_uid[b]

\* C2: an attempt whose duplicate check found a session of the same identity
\* creates no session, leaves its handle disconnected, and its caller is never
\* told success for it, neither by the password submission nor by a status query.
C2_DuplicateNeverSuccess ==
  \A n \in Names :
     dupHit[n] =>
        /\ n \notin Persisted
        /\ ~(reply.name = n /\ reply.op \in {"verify", "status"}
                            /\ reply.status = "success")

\* C3: once the 300-second timeout of an attempt was handled, its record, as
\* long as it exists, has status expired: it is not left in waiting, whatever
\* the handle did while it was being disconnected.
C3_TimeoutReachesExpired ==
  \A n \in Names :
     pc[n] = "timeout_done" /\ qr_sessions[n].status # "absent"
        => qr_sessions[n].status = "expired"

(***************************************************************************)
(* Properties of the quota ledger and of the queue.                        *)
(***************************************************************************)
\* C4: for every session and calendar day the daily count is never negative
\* and never exceeds the per-session daily cap the runs are started with,
\* whether or not use_admin_as_user is set.
C4_CountWithinCap ==
  \A r \in session_limits : r.users_added >= 0 /\ r.users_added <= max_daily

\* C5: for a session, a day and a cap, the remaining quota is the cap minus
\* the increments recorded for that session and day, so each increment
\* lowers it by exactly 1; without a record it is the full cap.
C5_RemainingIsCapMinusCount ==
  \A n \in Names, d \in Days, cap \in 0..MaxCap :
     /\ get_session_daily_limit(session_limits, n, d, cap) = cap - incr_calls[n][d]
     /\ limit_rows(session_limits, n, d) = {}
           => get_session_daily_limit(session_limits, n, d, cap) = cap

\* a session with increments on record on both days, the later one today
C5_Witness ==
  \E n \in Names :
     /\ today = 1
     /\ incr_calls[n][0] >= 1
     /\ incr_calls[n][1] >= 1

\* C6: a target whose status left pending (added, invited or failed) is not
\* set back to pending by any step; a pending row for that phone exists again
\* only after the operator removed the row and imported the phone anew.
C6_NoReturnToPending ==
  [][\A p \in Phones :
        StatusOf(phone_numbers, p) \in {"added", "invited", "failed"}
           => StatusOf(phone_numbers', p) # "pending"]_vars

\* the first target of the run in progress was processed by a session, and
\* its phone is pending again: the operator removed and re-imported it
C6_Witness ==
  /\ run.pc = "running"
  /\ run.pos = 2
  /\ Len(trace.picks) = 1
  /\ trace.picks[1] # 0
  /\ StatusOf(phone_numbers, run.pending_phones[1]) = "pending"

(***************************************************************************)
(* Properties of a run of the distribution engine.                         *)
(***************************************************************************)
\* C7: each target goes to the first candidate, searching cyclically from
\* the position after the previously selected one, whose run-local tally is
\* above zero, and the next search starts after that candidate; when every
\* tally is zero the target is not assigned and is counted as skipped.
C7_RoundRobin ==
  [][(run.pc = "running" /\ Len(trace'.picks) = Len(trace.picks) + 1) =>
       LET L == run.available_sessions
           len == Len(L)
           pick == trace'.picks[Len(trace'.picks)]
           At(d) == ((run.session_index + d) % len) + 1
           done == run.results.added + run.results.failed + run.results.invited
       IN IF \A k \in 1..len : L[k][2] = 0
          THEN /\ pick = 0
               /\ phone_numbers' = phone_numbers
               /\ run'.results.skipped = Len(run.pending_phones) - done
          ELSE \E d \in 0..(len - 1) :
                  /\ L[At(d)][2] > 0
                  /\ \A e \in 0..(d - 1) : L[At(e)][2] = 0
                  /\ pick = L[At(d)][1]
                  /\ run'.session_index = At(d)
                  /\ run'.results.skipped = run.results.skipped]_vars

\* candidates S1 with 2 and S3 with 1 left, S2 at its cap: four targets go to
\* S1, S3, S1, and the fourth is skipped
C7_Witness ==
  /\ max_daily = 2
  /\ incr_calls[2][0] = 2
  /\ trace.start.candidates = << <<1, 2>>, <<3, 1>> >>
  /\ trace.picks = <<1, 3, 1, 0>>
  /\ result.results.skipped = 1

\* a finished run that was started with targets and exactly one candidate,
\* whose remaining quota covers them all, that reached its group and whose
\* direct adds all succeeded
C8_Case ==
  /\ run.pc = "done"
  /\ Len(trace.start.targets) >= 1
  /\ Len(trace.start.candidates) = 1
  /\ trace.start.candidates[1][2] >= Len(trace.start.targets)
  /\ ~trace.faults
  /\ result.cause \notin {"no_admin", "group"}

\* such a run reports success with added = n and the other counts 0, every
\* target is added, and the candidate's quota consumption grew by n
C8_Outcome ==
  LET n == Len(trace.start.targets)
  IN /\ result.success
     /\ result.results = [added |-> n, failed |-> 0, invited |-> 0, skipped |-> 0]
     /\ \A i \in 1..n : StatusOf(phone_numbers, trace.start.targets[i]) = "added"
     /\ TotalAdded(session_limits, trace.start.candidates[1][1])
           = trace.start.totals[1] + n

\* C8 as stated: with n pending targets, any batch size, one candidate with
\* remaining quota of at least n, a reachable group and every direct add
\* succeeding, the run reports success with added = n and failed = invited =
\* skipped = 0, all n targets are added and the quota consumption grew by n.
C8_AnyBatchSize == C8_Case => C8_Outcome

\* C8, amended: the same for any batch size of at least 1.
C8_PositiveBatchSize ==
  (C8_Case /\ trace.start.batch_size >= 1) => C8_Outcome

\* two targets added one per batch by the only candidate
C8_Witness ==
  /\ C8_Case
  /\ Len(trace.start.targets) = 2
  /\ trace.start.batch_size = 1
  /\ result.results.added = 2

\* C9: when the distributor imported the target as a temporary contact, the
\* contact is gone again after the step, however the step ended; a phone that
\* was a contact before the step is still one after it.
C9_TempContactBracketed ==
  /\ (last_contact.imported /\ ~last_contact.was /\ ~last_contact.refused)
        => ~last_contact.after
  /\ last_contact.was => last_contact.after

(***************************************************************************)
(* Properties of the supervisor's schedule.                                *)
(***************************************************************************)
\* C10: with a valid daily start time and no forced wake, the next run a
\* heartbeat computes is tomorrow's start instant if the last run happened
\* today at or after today's start instant; otherwise it is today's start
\* instant while that is in the future, and now once it has passed.
C10_DailyStartSchedule ==
  [][(/\ supervisor.pc = "heartbeat"
      /\ supervisor'.pc # "heartbeat"
      /\ ~auto_add.forced_wakeup
      /\ auto_add.daily_start_time # <<>>
      /\ auto_add.daily_start_time[1] \in 0..(HoursPerDay - 1)
      /\ auto_add.daily_start_time[2] \in 0..(MinutesPerHour - 1)) =>
       LET now == today * DayLen + clock
           start_instant == today * DayLen
                      + auto_add.daily_start_time[1] * MinutesPerHour
                      + auto_add.daily_start_time[2]
           ranToday == /\ auto_add.last_run # <<>>
                       /\ auto_add.last_run[1] >= start_instant
                       /\ auto_add.last_run[1] < (today + 1) * DayLen
       IN supervisor'.next_run =
             << IF ranToday THEN start_instant + DayLen
                ELSE IF start_instant > now THEN start_instant ELSE now >>]_vars

\* the last run was exactly at today's start instant, and the heartbeat,
\* later the same day, computed tomorrow's start instant
C10_Witness ==
  LET start_instant == today * DayLen + MinutesPerHour
  IN /\ supervisor.pc = "waiting"
     /\ ~auto_add.forced_wakeup
     /\ auto_add.daily_start_time = <<1, 0>>
     /\ auto_add.last_run = <<start_instant>>
     /\ supervisor.now_utc > start_instant
     /\ date(supervisor.now_utc) = today
     /\ supervisor.next_run = <<start_instant + DayLen>>

\* C11: with no daily start time and no forced wake, a heartbeat launches a
\* run only when at least the minimum interval has passed since the previous
\* run ended, whether that run returned a result or raised (the stored
\* last run, from which the next run is computed, being present).
C11_IntervalSinceLastRunEnd ==
  [][(/\ supervisor.pc = "heartbeat"
      /\ supervisor'.pc = "cycle"
      /\ auto_add.daily_start_time = <<>>
      /\ ~auto_add.forced_wakeup
      /\ auto_add.last_run # <<>>
      /\ supervisor.last_end # <<>>)
       => Now >= supervisor.last_end[1] + min_run_interval]_vars

\* C12: shutdown() has returned only when the cycle that was executing at
\* its call is over; then the running flag is false and no run is left
\* executing, whether the cycle returned a result or raised.
C12_ShutdownWaitsForRun ==
  supervisor.shutdown = "returned" =>
    /\ supervisor.pc \in {"stopped", "exited"}
    /\ ~supervisor.running
    /\ run.pc = "idle"
    /\ supervisor.inflight => supervisor.last_end # <<>>

\* shutdown() was called during a cycle and has returned after the cycle
\* raised
C12_Witness ==
  /\ supervisor.shutdown = "returned"
  /\ supervisor.inflight
  /\ supervisor.last_raised
  /\ auto_add.last_result = "error"

C15_FailFastLeavesLedgers ==
  [][(/\ run.pc = "idle"
      /\ run'.pc # "idle"
      /\ \/ get_pending_phone_numbers(phone_numbers) = <<>>
         \/ trace'.start.candidates = <<>>
         \/ ~trace'.start.admin
         \/ ~trace'.start.group) =>
       /\ run'.pc = "done"
       /\ ~result'.success
       /\ phone_numbers' = phone_numbers
       /\ session_limits' = session_limits]_vars

\* a run with phones pending, a candidate with additions on record and
\* the admin handle has ended because the group did not resolve
C15_Witness ==
  /\ run.pc = "done"
  /\ ~result.success
  /\ ~trace.start.group
  /\ trace.start.targets # <<>>
  /\ trace.start.candidates # <<>>
  /\ session_limits # {}

Queried(n) ==
  /\ reply' # reply
  /\ reply'.op = "status"
  /\ reply'.name = n
  /\ qr_sessions[n].status # "absent"

\* what a query does to the records when it finds the state st, of which
\* it reports shown
QueryEffect(n, st, shown) ==
  /\ reply'.status = shown
  /\ IF st \in {"generating", "waiting", "password_required"}
     THEN qr_sessions' = qr_sessions
     ELSE qr_sessions' = [qr_sessions EXCEPT ![n] = NoRec]

\* a record that was removed does not come back
RemovedForGood ==
  \A n \in Names :
     (n <= issued /\ qr_sessions[n].status = "absent")
        => qr_sessions'[n].status = "absent"

\* C18 as stated: a query that finds generating, waiting or
\* password_required returns that state and leaves the records as they
\* are; a query that finds scanned (returned as success), duplicate, expired
\* or error returns it and removes the record, which never comes back.
C18_QueryReturnsState ==
  [][/\ \A n \in Names :
          Queried(n) =>
            LET st == qr_sessions[n].status
            IN QueryEffect(n, st, IF st = "scanned" THEN "success" ELSE st)
     /\ RemovedForGood]_vars

\* C18, amended: the same, with generating returned as waiting.
C18_QueryReturnsPublicState ==
  [][/\ \A n \in Names :
          Queried(n) =>
            LET st == qr_sessions[n].status
            IN QueryEffect(n, st, IF st = "scanned" THEN "success"
                                  ELSE IF st = "generating" THEN "waiting"
                                  ELSE st)
     /\ RemovedForGood]_vars

\* a query has found an attempt generating and answered waiting
C18_Witness ==
  /\ reply.op = "status"
  /\ reply.status = "waiting"
  /\ qr_sessions[reply.name].status = "generating"

\* the edges between the states of an attempt, as stated
StatedEdges ==
  ({"generating"} \X {"waiting"})
    \cup ({"waiting"} \X {"scanned", "password_required", "duplicate",
                          "expired", "error"})
    \cup ({"password_required"} \X {"scanned", "duplicate", "error"})

\* every change of the state of a record is along an edge of E, the
\* creation of the record or its removal
ChangesAlong(E) ==
  \A n \in Names :
     LET st == qr_sessions[n].status
         nx == qr_sessions'[n].status
     IN st # nx =>
          \/ nx = "absent"
          \/ st = "absent" /\ nx = "generating"
          \/ <<st, nx>> \in E

\* C19 with the edge generating -> error, which a failed generation of
\* the challenge takes, granted: the state of an attempt changes only along
\* the stated edges and that one; from scanned, duplicate, expired and
\* error the record can only be removed.
C19_TerminalStatesFinal ==
  [][ChangesAlong(StatedEdges \cup {<<"generating", "error">>})]_vars

\* C20: a password submitted for an attempt that is unknown or not in
\* password_required is refused before sign_in is called on the handle, and
\* changes nothing but the reply.
C20_PasswordOnlyWhenRequired ==
  [][\A n \in Names :
       (/\ reply' # reply
        /\ reply'.op = "verify"
        /\ reply'.name = n
        /\ qr_sessions[n].status # "password_required") =>
          /\ reply'.status \in {"session_not_found", "client_not_found"}
          /\ UNCHANGED <<qr_sessions, sessions, admin_sessions, user_sessions,
                         db_sessions, db_admin, user_files, admin_files,
                         handle>>]_vars

(***************************************************************************)
(* Properties of the password submission and of what is left behind by an  *)
(* attempt that ended.                                                     *)
(***************************************************************************)
\* a session named n is stored and registered, in the partition of n's variant
StoredAndRegistered(n) ==
  IF variant[n] = "admin"
  THEN /\ \E r \in AdminRows : r.session_name = n
       /\ admin_sessions[n] # "absent"
  ELSE /\ n \in db_sessions
       /\ sessions[n] # "absent"

\* a password submission for the attempt n has been answered in this step
Submitted(n) ==
  /\ reply' # reply
  /\ reply'.op = "verify"
  /\ reply'.name = n

\* C21: a password submission answers success only if a session with the
\* attempt's name is stored and registered after it; when it answers error
\* (second factor rejected), the attempt is in error and its handle is
\* disconnected.
C21_SuccessMeansPersisted ==
  [][\A n \in Names :
       Submitted(n) =>
         /\ reply'.status = "success" => StoredAndRegistered(n)'
         /\ reply'.status = "error" =>
               /\ qr_sessions'[n].status = "error"
               /\ handle'[n] = "disc"]_vars

\* the persisted session named n exists in the store
SessionStored(n) ==
  IF variant[n] = "admin" THEN \E r \in AdminRows : r.session_name = n
  ELSE n \in db_sessions

\* a status query for n has been answered in this step, from a state in
\* which n's success had been observed and n's record was gone
QueriedAfterSuccess(n) ==
  /\ reply' # reply
  /\ reply'.op = "status"
  /\ reply'.name = n
  /\ n \in observed
  /\ qr_sessions[n].status = "absent"

\* C22: once the success of an attempt has been observed and its record is
\* removed, every status query for its name answers success while the
\* persisted session of that name exists, for user and admin attempts alike.
C22_SuccessStaysObservable ==
  [][\A n \in Names :
       (QueriedAfterSuccess(n) /\ SessionStored(n)) =>
          reply'.status = "success"]_vars

\* nothing is left of the attempt n: its handle is not connected, no
\* credential file has its name, no session of its name is registered or
\* stored
NothingLeft(n) ==
  /\ handle[n] # "conn"
  /\ n \notin user_files \cup admin_files
  /\ sessions[n] = "absent"
  /\ admin_sessions[n] = "absent"
  /\ n \notin Persisted

\* C23: whenever an attempt is in duplicate, expired or error, or has been
\* reaped by the janitor, its handle is disconnected, no credential file
\* named after it exists, and no session named after it is registered or
\* stored.
C23_EndedAttemptLeavesNothing ==
  \A n \in Names :
     (qr_sessions[n].status \in {"duplicate", "expired", "error"}
        \/ pc[n] = "reaped") => NothingLeft(n)

\* the step persists an admin session: a row is added to admin_session
AdminPersisted == Len(db_admin') > Len(db_admin)

\* C24: every successful persistence of an admin attempt comes with one
\* fetch of the group memberships of the admin identity, which table
\* admin_groups then holds.
C24_AdminPersistenceFetchesGroups ==
  [][AdminPersisted =>
       admin_groups' = fetch_admin_groups(admin_groups,
                                          db_admin'[Len(db_admin')].user_id)]_vars

\* the janitor drops the record of n in this step
Reaped(n) == pc[n] # "reaped" /\ pc'[n] = "reaped"

\* every record is removed in the end
EveryRecordRemoved ==
  \A n \in Names :
     (qr_sessions[n].status # "absent") ~> (qr_sessions[n].status = "absent")

\* C25: every attempt record is removed in the end, by the status query
\* that observes its terminal state or by the janitor once it is older than
\* 600 seconds, whatever its state; a handle that a reaped attempt still
\* holds is disconnected when the record is dropped.
C25_RecordsRemovedHandlesClosed ==
  /\ EveryRecordRemoved
  /\ [][\A n \in Names :
          (Reaped(n) /\ qr_sessions[n].client) => handle'[n] # "conn"]_vars

(***************************************************************************)
(* Properties of a run that finds its candidates out of quota.             *)
(***************************************************************************)
\* the run in progress has found no candidate session with remaining quota
OutOfQuotaFound ==
  /\ run.pc = "running"
  /\ \E i \in 1..Len(trace.picks) : trace.picks[i] = 0

\* C27: once a run has found that no candidate session has remaining quota,
\* it stops: its next step is its return, it looks at no further target and
\* sleeps no further inter-batch delay, and what it returns counts every
\* target it did not process as skipped.
C27_OutOfQuotaStops ==
  [][OutOfQuotaFound =>
       \/ UNCHANGED <<run, trace, result>>
       \/ /\ run'.pc = "done"
          /\ trace'.batch_delays = trace.batch_delays
          /\ LET r == result'.results IN
             r.skipped = Len(trace.start.targets) - (r.added + r.failed + r.invited)]_vars

(***************************************************************************)
(* Properties of the quota increments of a run.                            *)
(***************************************************************************)
\* the run looks at its next target in this step
Looked == run.pc = "running" /\ Len(trace'.picks) = Len(trace.picks) + 1

\* the session the step selected, 0 when it found none
PickOf(tr) == tr.picks[Len(tr.picks)]

\* the increments of the quota counts since the run began, over the
\* sessions the run began with
RECURSIVE IncrementsUpTo(_)
IncrementsUpTo(k) ==
  IF k = 0 THEN 0
  ELSE LET cands == trace.start.candidates
           first == \A j \in 1..(k - 1) : cands[j][1] # cands[k][1] IN
       (IF first
          THEN TotalAdded(session_limits, cands[k][1]) - trace.start.totals[k]
          ELSE 0)
         + IncrementsUpTo(k - 1)

RunIncrements == IncrementsUpTo(Len(trace.start.candidates))

\* C28: the quota count of a session grows by exactly one in every step in
\* which the session adds a target by direct add, and by nothing in a step
\* whose target ends invited or failed or is skipped; the increments of a
\* run sum up to the added counter of its result.
C28_IncrementPerDirectAdd ==
  /\ [][Looked =>
          LET phone == run.pending_phones[run.pos]
              s == PickOf(trace')
              r == run.results
              added == run'.results.added = r.added + 1
          IN /\ \A n \in Names :
                  TotalAdded(session_limits', n)
                    = TotalAdded(session_limits, n)
                        + (IF added /\ n = s THEN 1 ELSE 0)
             /\ IF added
                THEN /\ s # 0
                     /\ StatusOf(phone_numbers', phone) \in {"added", "absent"}
                     /\ run'.results = [r EXCEPT !.added = @ + 1]
                ELSE \/ s = 0 /\ StatusOf(phone_numbers', phone)
                                   = StatusOf(phone_numbers, phone)
                     \/ /\ s # 0
                        /\ StatusOf(phone_numbers', phone)
                              \in {"invited", "failed", "absent"}
                        /\ run'.results.invited + run'.results.failed
                              = r.invited + r.failed + 1]_vars
  /\ [](run.pc = "running" => RunIncrements = run.results.added)
  /\ []((run.pc = "done" /\ result.success)
           => RunIncrements = result.results.added)

\* a run has returned after one target was added by a session, another one
\* was invited or failed, and a third one was skipped
C28_Witness ==
  /\ run.pc = "done"
  /\ result.success
  /\ result.results.added >= 1
  /\ result.results.invited + result.results.failed >= 1
  /\ result.results.skipped >= 1
  /\ RunIncrements = result.results.added

(***************************************************************************)
(* Properties of the rate limit.                                           *)
(***************************************************************************)
\* the step is a per-target step whose direct add is answered by a rate
\* limit (FloodWaitError)
RateLimited ==
  \E was \in BOOLEAN, listed \in BOOLEAN, importOk \in BOOLEAN,
     sendOk \in BOOLEAN, removeOk \in BOOLEAN :
       /\ find_session(run.available_sessions, run.session_index, 0) # -1
       /\ ProcessTarget(was, listed, importOk, TRUE, TRUE, "flood", sendOk, removeOk)

\* C29: a rate limit on a direct add is waited out and is never turned into
\* a permanent failure: the target of the step is not marked failed.
C29_RateLimitNotFailure ==
  [][RateLimited =>
       StatusOf(phone_numbers', run.pending_phones[run.pos]) # "failed"]_vars

(***************************************************************************)
(* Properties of the daily schedule after the start instant.               *)
(***************************************************************************)
\* today's start instant of a valid daily start time
StartInstant ==
  today * DayLen + auto_add.daily_start_time[1] * MinutesPerHour
    + auto_add.daily_start_time[2]

\* no cycle of the supervisor has ended today
NoRunToday ==
  supervisor.last_end = <<>> \/ date(supervisor.last_end[1]) # today

\* a pass of the loop decides, with automation enabled, pending targets, a
\* valid daily start time whose instant of today has passed, and no run today
DueToday ==
  /\ supervisor.pc = "heartbeat"
  /\ supervisor'.pc # "heartbeat"
  /\ auto_add.enabled
  /\ get_pending_phone_numbers(phone_numbers) # <<>>
  /\ auto_add.daily_start_time # <<>>
  /\ auto_add.daily_start_time[1] \in 0..(HoursPerDay - 1)
  /\ auto_add.daily_start_time[2] \in 0..(MinutesPerHour - 1)
  /\ Now >= StartInstant
  /\ NoRunToday

\* the loop was started today at or after the start instant: the instant it
\* wrote as the last run is still the stored one
StartedAfterStartInstant ==
  /\ auto_add.last_run # <<>>
  /\ auto_add.last_run[1] >= StartInstant

\* C30 as stated: with a daily start time, automation enabled and pending
\* targets, a pass of the loop after today's start instant with no run today
\* launches a run, also when the loop was started after the start instant.
C30_RunsWhenStartPassed ==
  [][DueToday => supervisor'.pc = "cycle"]_vars

\* C30, amended: the same, unless the loop was started today at or after the
\* start instant; then, without a forced wake, the pass launches nothing and
\* the next run is tomorrow's start instant.
C30_RunsUnlessStartedLate ==
  [][DueToday =>
       IF StartedAfterStartInstant /\ ~auto_add.forced_wakeup
       THEN /\ supervisor'.pc = "waiting"
            /\ supervisor'.next_run = <<StartInstant + DayLen>>
       ELSE supervisor'.pc = "cycle"]_vars

\* on the second day a pass of the loop after the start instant has launched
\* a run; the loop runs since the first day, whose run was the last one
C30_Witness ==
  /\ supervisor.pc = "cycle"
  /\ today = 1
  /\ auto_add.daily_start_time = <<0, 1>>
  /\ supervisor.now_utc >= StartInstant
  /\ supervisor.last_end # <<>>
  /\ auto_add.last_run = supervisor.last_end
  /\ date(supervisor.last_end[1]) = 0
  /\ supervisor.loops = 1

(***************************************************************************)
(* Two runs of add_users_to_group that overlap.  The API handler           *)
(* start_phone_automation awaits add_users_to_group without testing        *)
(* whether a run is in progress, and the routine takes no lock: at its     *)
(* await between two targets (asyncio.sleep(delay)) the event loop may     *)
(* execute the other invocation.  Yield is this switch: the locals of the  *)
(* run that was executing are set aside and those of the other one are     *)
(* taken up; a run that was not yet called is taken up idle.               *)
(***************************************************************************)
Yield ==
  /\ run.pc \in {"idle", "running"}
  /\ other.run.pc \in {"idle", "running"}
  /\ run.pc = "running" \/ other.run.pc = "running"
  /\ run' = other.run
  /\ result' = other.result
  /\ trace' = other.trace
  /\ other' = [run |-> run, result |-> result, trace |-> trace]
  /\ UNCHANGED <<phone_numbers, session_limits, settings, today, max_daily,
                 admin_groups, incr_calls, last_contact>>
  /\ UNCHANGED <<qrVars, schedVars>>

NextOverlap ==
  \/ StartRun
  \/ TargetStepListed
  \/ RunFinish
  \/ RunReturn
  \/ Yield

SpecOverlap == InitContact /\ [][NextOverlap]_vars

\* the status of phone p is one of the processed ones
Processed(p) == StatusOf(phone_numbers, p) \in {"added", "invited", "failed"}

\* C26: no step of a run, also of two runs that overlap, gives a target
\* whose status is added, invited or failed a different status.
C26_ProcessedIsFinal ==
  [][\A p \in Phones :
       Processed(p) => StatusOf(phone_numbers', p) = StatusOf(phone_numbers, p)]_vars

(***************************************************************************)
(* The supervisor under the administrative interface: the target group is  *)
(* set or cleared, the automation is started and stopped, a phone is      *)
(* imported, over a store that begins with the default settings and an    *)
(* empty queue.                                                            *)
(***************************************************************************)
\* POST /api/admin/target-group (main.py:667-670); a group id of 0 is stored
\* as it is and counts as no target group
SetTargetGroup(g) ==
  /\ auto_add.target_group # g
  /\ auto_add' = [auto_add EXCEPT !.target_group = g]
  /\ UNCHANGED <<qrVars, engineVars, clock, supervisor>>

\* POST /api/admin/auto-add/stop (main.py:734-742): disable and wake_up(),
\* which ends the wait of a waiting loop
StopAutoAdd ==
  /\ supervisor.shutdown = "none"
  /\ auto_add.enabled
  /\ auto_add' = [auto_add EXCEPT !.enabled = FALSE]
  /\ supervisor' = [supervisor EXCEPT
                      !.pc = IF @ = "waiting" THEN "heartbeat" ELSE @,
                      !.timeout = 0]
  /\ UNCHANGED <<qrVars, engineVars, clock>>

InitAdmin ==
  /\ Registered({}, 3)
  /\ phone_numbers = <<>>
  /\ session_limits = {}
  /\ settings = [use_admin_as_user |-> TRUE, use_user_as_admin |-> FALSE]
  /\ today = 0
  /\ max_daily = 1
  /\ admin_groups = NoGroups
  /\ other = NoOther
  /\ run = NoRun
  /\ result = NoResult
  /\ trace = NoTrace
  /\ incr_calls = [n \in Names |-> [d \in Days |-> 0]]
  /\ last_contact = NoContact
  /\ auto_add = NoAutoAdd
  /\ clock = 0
  /\ supervisor = NoSupervisor

NextAdmin ==
  \/ SupervisorStart
  \/ StartAutoAdd
  \/ StopAutoAdd
  \/ \E g \in BOOLEAN : SetTargetGroup(g)
  \/ ImportPhone(1)
  \/ Heartbeat
  \/ WaitOver
  \/ CycleStart
  \/ TargetStepListed
  \/ RunFinish
  \/ CycleFinish
  \/ Tick

SpecAdmin == InitAdmin /\ [][NextAdmin]_vars

\* what a pass of the loop would read: the automation is disabled, has no
\* target group, or no phone is pending
NothingToDo ==
  \/ ~auto_add.enabled
  \/ ~auto_add.target_group
  \/ get_pending_phone_numbers(phone_numbers) = <<>>

\* the step is a pass of the loop: it ends in a wait or in a launch
LoopPass == supervisor.pc = "heartbeat" /\ supervisor'.pc \in {"waiting", "cycle"}

\* C31: a pass of the supervisor loop that reads the automation disabled, no
\* target group or a pending count of zero launches no run, forced wake or
\* not: it ends in a wait whose timeout is the poll interval and starts no
\* run; only a launched cycle starts a run of the supervisor, and the loop
\* leaves a wait only for its next pass, which reads the settings again.
C31_NoRunWithoutWork ==
  /\ [][LoopPass /\ NothingToDo =>
          /\ supervisor'.pc = "waiting"
          /\ supervisor'.timeout = poll_interval
          /\ run' = run /\ run.pc = "idle"]_vars
  /\ [][run.pc = "idle" /\ run'.pc # "idle" => supervisor.pc = "cycle"]_vars
  /\ [][supervisor.pc = "waiting" => supervisor'.pc \in {"waiting", "heartbeat"}]_vars

\* a forced wake was requested while the loop ran and the pass that consumed
\* it found the queue empty: the loop waits the poll interval
C31_Witness ==
  /\ supervisor.pc = "waiting"
  /\ supervisor.timeout = poll_interval
  /\ auto_add.enabled /\ auto_add.target_group
  /\ auto_add.last_run = <<>>
  /\ ~auto_add.forced_wakeup
  /\ get_pending_phone_numbers(phone_numbers) = <<>>
  /\ run.pc = "idle"

\* the step clears the forced-wake flag
ForcedCleared == auto_add.forced_wakeup /\ ~auto_add'.forced_wakeup

\* C32: a forced-wake flag that is set stays set until a pass of the
\* supervisor loop that launches a run: the flag is cleared only by such a
\* pass, which launches although the schedule says to wait.
C32_ForcedWakeKeptUntilRun ==
  [][ForcedCleared => supervisor.pc = "heartbeat" /\ supervisor'.pc = "cycle"]_vars

\* the step is a request of the administrative interface about the
\* automation
AdminRequest ==
  \/ StartAutoAdd
  \/ StopAutoAdd
  \/ \E g \in BOOLEAN : SetTargetGroup(g)

\* the step changes one of the automation settings
SettingsChanged ==
  \/ auto_add'.enabled # auto_add.enabled
  \/ auto_add'.target_group # auto_add.target_group
  \/ auto_add'.daily_start_time # auto_add.daily_start_time
  \/ max_daily' # max_daily

\* C34: the enabled flag, the target group, the daily start time and the
\* daily cap are changed by requests of the administrative interface only:
\* no step of the supervisor (start, shutdown, loop pass, cycle) and no step
\* of a run changes one of them.
C34_SettingsReadOnly ==
  [][SettingsChanged => AdminRequest]_vars

(***************************************************************************)
(* The calls of the supervisor in any order: start() also after            *)
(* shutdown() was called.  shutdown() sets the event objects of the        *)
(* moment and clears self._task (lines 43-46); a start() that comes while  *)
(* shutdown() awaits the loop task finds self._task None, binds            *)
(* self._stop_event and self._wake_event to new, unset events and creates  *)
(* a second loop task (lines 31-35).  The first loop reads                 *)
(* self._stop_event anew at every test of line 83, so from then on it      *)
(* tests the new event.  Both tasks execute the same loop over the same    *)
(* fields; pc follows the task that shutdown() awaits, and the call is     *)
(* taken while that task is at the top of the loop or in its wait (which   *)
(* the set events end), not in a cycle.                                    *)
(***************************************************************************)
StartCall ==
  /\ ~supervisor.task
  /\ supervisor.pc \in {"stopped", "exited", "waiting", "heartbeat"}
  /\ auto_add' = [auto_add EXCEPT !.last_run = <<Now>>]
  /\ supervisor' = [start(supervisor) EXCEPT !.timeout = 0]
  /\ UNCHANGED <<qrVars, engineVars, clock>>

NextCalls ==
  \/ StartCall
  \/ StartAutoAdd
  \/ Heartbeat
  \/ WaitOver
  \/ LoopExit
  \/ CycleStart
  \/ TargetStepListed
  \/ RunFinish
  \/ CycleFinish
  \/ CycleRaise
  \/ Shutdown
  \/ ShutdownReturn
  \/ Tick

SpecCalls == InitSup /\ [][NextCalls]_vars

\* shutdown() has set the stop signal and has not returned
Stopping == supervisor.shutdown = "awaiting"

\* C33: once shutdown() has set the stop signal, the loop task it awaits
\* launches no run, and the first test of the loop after the signal ends the
\* loop, whatever start() and wake_up() calls come in between and also when
\* the wake and the stop signal end the same wait.
C33_StopWins ==
  /\ [][Stopping /\ supervisor.pc # "cycle" => supervisor'.pc # "cycle"]_vars
  /\ [][Stopping /\ supervisor.pc = "heartbeat" =>
          supervisor'.pc \in {"heartbeat", "exited"}]_vars

(***************************************************************************)
(* The mutex of the registry.  The janitor removes an expired record       *)
(* inside `async with self._session_lock` and awaits the disconnect of the *)
(* record's handle there (lines 50-58): the lock stays held while other    *)
(* tasks run.  cleanup_begin is the janitor up to that await, cleanup_end  *)
(* the rest.  The other operations of this specification that take the     *)
(* lock around their changes of the maps wait for it to be free;           *)
(* check_qr_status takes no lock (lines 240-286).                          *)
(***************************************************************************)
cleanup_begin(n) ==
  /\ lock = 0
  /\ qr_sessions[n].status # "absent"
  /\ qr_sessions[n].client
  /\ pc[n] \in {"done", "timeout_done"}
  /\ lock' = n
  /\ UNCHANGED <<qr_sessions, sessions, admin_sessions, user_sessions,
                 db_sessions, db_admin, user_files, admin_files, handle,
                 auth_uid, pc, variant, ignored_ids, issued, reply, dupHit,
                 observed>>
  /\ UNCHANGED <<engineVars, schedVars>>

\* the disconnect is over; `del self.qr_sessions[session_name]` (line 58)
\* raises KeyError when the record is gone, which the handler of line 74
\* catches: the files of the name are then not looked at
cleanup_end(n, raises) ==
  /\ lock = n
  /\ lock' = 0
  /\ IF qr_sessions[n].status # "absent"
     THEN /\ reap(n, raises)
          /\ pc' = [pc EXCEPT ![n] = "reaped"]
     ELSE /\ handle' = IF raises THEN handle ELSE [handle EXCEPT ![n] = "disc"]
          /\ UNCHANGED <<qr_sessions, user_files, admin_files, pc>>
  /\ UNCHANGED <<sessions, admin_sessions, user_sessions, db_sessions, db_admin,
                 auth_uid, variant, ignored_ids, issued, reply, dupHit, observed>>
  /\ UNCHANGED <<engineVars, schedVars>>

\* the operations that change the maps inside the lock
LockedStep ==
  /\ lock = 0
  /\ \/ \E admin \in BOOLEAN : IssueBegin(admin)
     \/ \E n \in Names, ok \in BOOLEAN, raises \in BOOLEAN : IssueFinish(n, ok, raises)
     \/ \E n \in Names, u \in Identities : Need2FA(n, u)
     \/ \E n \in Names, raises \in BOOLEAN : ScanTimeout(n, raises)
     \/ \E n \in Names, raises \in BOOLEAN : ScanError(n, raises)

NextLock ==
  \/ LockedStep
  \/ \E n \in Names : cleanup_begin(n)
  \/ \E n \in Names, raises \in BOOLEAN : cleanup_end(n, raises)
  \/ \E n \in Names : check_qr_status(n)

SpecLock == InitLogin /\ [][NextLock]_vars

\* the names with a record in the QR attempt map
RecordsOf(q) == {n \in Names : q[n].status # "absent"}

\* the step inserts into or deletes from one of the registry maps
RegistryChanged ==
  \/ RecordsOf(qr_sessions') # RecordsOf(qr_sessions)
  \/ {n \in Names : sessions'[n] # "absent"} # {n \in Names : sessions[n] # "absent"}
  \/ {n \in Names : admin_sessions'[n] # "absent"}
       # {n \in Names : admin_sessions[n] # "absent"}
  \/ user_sessions' # user_sessions

\* C35: every insertion into and deletion from the registry maps is made by
\* the holder of the mutex: while a task holds the mutex, the only step that
\* changes the maps is the one in which that task finishes and releases it.
C35_MutationsUnderMutex ==
  [][lock # 0 /\ RegistryChanged => lock' = 0]_vars

\* the step is the start of a run that has built its candidate list
ListBuilt == run.pc = "idle" /\ trace'.start.targets # <<>>

\* the names of the candidate list a run began with
CandidateNames(tr) ==
  {tr.start.candidates[k][1] : k \in 1..Len(tr.start.candidates)}

\* C36: the candidate list of every run, also of one that is invoked
\* directly, is built after the reload and the health check of the
\* registry: no user handle that fails the check is registered at that
\* moment (the health check has evicted it), so every registered user
\* session with quota left is a candidate.
C36_RunAfterHealthCheck ==
  [][ListBuilt =>
       \A n \in Names :
          /\ sessions'[n] # "absent"
          /\ n # get_admin_session
          /\ get_session_daily_limit(session_limits, n, today, max_daily) > 0
          => n \in CandidateNames(trace')]_vars

\* no session name is twice in the candidate list
EachOnce(cands) ==
  \A i, j \in 1..Len(cands) : i # j => cands[i][1] # cands[j][1]

\* C37: the candidate list of every run holds each session name at most
\* once, and when no run is in progress the admin handle is not in the user
\* partition of the registry, also after a run that had it as a candidate.
C37_CandidatesOnceAdminNotLeft ==
  /\ EachOnce(trace.start.candidates)
  /\ run.pc # "running" /\ get_admin_session # 0
       => sessions[get_admin_session] = "absent"

(***************************************************************************)
(* A run while other tasks change the registry: the periodic health check  *)
(* (_periodic_health_check, lines 100-108) evicts handles and the operator *)
(* removes sessions between two per-target steps of the run.               *)
(***************************************************************************)
NextEvict ==
  \/ StartRun
  \/ TargetStepListed
  \/ RunFinish
  \/ \E fail \in SUBSET Names : HealthCheck(fail)
  \/ \E n \in Names, logoutOk \in BOOLEAN : RemoveSession(n, logoutOk)

SpecEvict == InitContact /\ [][NextEvict]_vars

\* the step ends a run that had begun to process its targets
RunEnds == run.pc = "running" /\ run'.pc = "done"

\* C38: a run that has begun to process its targets is not aborted by a
\* change of the registry made by another task: it ends with a successful
\* result.
C38_RegistryChangeNoAbort ==
  [][RunEnds => result'.success]_vars

\* every entry of the identity map names a session of the user partition
MapNamesRegistered ==
  \A u \in Identities :
     user_sessions[u] # 0 => sessions[user_sessions[u]] # "absent"

\* the duplicate check answers duplicate for the attempt n in this step
FoundDuplicate(n) == ~dupHit[n] /\ dupHit'[n]

\* C39: in every reachable state each entry of the identity map names a
\* session that is registered, and so an attempt is answered duplicate only
\* while a registered session of its identity exists: after a removal or an
\* eviction the identity can log in again.
C39_IdentityMapNamesRegistered ==
  /\ []MapNamesRegistered
  /\ [][\A n \in Names :
          FoundDuplicate(n) =>
             \E m \in Names : /\ sessions[m] # "absent"
                              /\ auth_uid[m] = auth_uid'[n]]_vars

\* the issue operation of the attempt n returns in this step
IssueReturns(n) == pc[n] = "gen" /\ pc'[n] # "gen"

\* the names with a row in table sessions or admin_session after the step
PersistedAfter == db_sessions' \cup {db_admin'[i].session_name : i \in 1..Len(db_admin')}

\* C40: the issue operation answers success only when a session of the new
\* attempt is persisted; when the handle cannot be opened or the challenge
\* is not issued, it answers an error, the handle is disconnected and the
\* record of the attempt has status error or is removed.
C40_IssueSuccessMeansSession ==
  [][\A n \in Names :
       IssueReturns(n) =>
          /\ reply'.status = "success" => n \in PersistedAfter
          /\ pc'[n] = "done" =>
                /\ reply'.status = "error"
                /\ handle'[n] # "conn"
                /\ qr_sessions'[n].status \in {"error", "absent"}]_vars

====
